---- MODULE Spec2Model ----
(***************************************************************************)
(* The JSON-RPC front end of starknet-devnet: the dispatcher (base_route,  *)
(* parse_body), the handlers bound to the method table, the wire codec     *)
(* (rpc_felt, rpc_root) and the domain translators of blueprints/rpc.py.   *)
(* The codec on its own, the wrapper of validate_schema and the loader of  *)
(* the schema registry (blueprints/rpc/schema.py) have a specification     *)
(* each: CodecSpec, SchemaSpec and RegistrySpec.                           *)
(* Python strings that the code slices or strips are sequences of          *)
(* one-character strings; enumeration tags and handler names are strings.  *)
(* The chain-state engine (state.starknet_wrapper) is not part of the      *)
(* front end; it is modelled by its contract: a lookup returns the entity  *)
(* or fails with StarknetDevnetException.                                  *)
(***************************************************************************)
EXTENDS Integers, Sequences, FiniteSets, TLC

\* Bounds of the explored chain.
MaxBlocks == 2
MaxTxPerBlock == 2

\* Bounds of the values handed to the codec.
MaxFelt == 300
MaxRootLen == 2

\* b"\x00" * 32: a state root is 32 bytes.
RootBytes == 32

VARIABLES
  blocks,        \* state.starknet_wrapper.blocks: the blocks by number, block n at n + 1
  origin_raises, \* whether a lookup of an unknown transaction raises or reports NOT_RECEIVED
  stage,         \* where the last request ended, IDLE when none is open
  body,          \* request.json of the open request, <<>> when none is open
  returned,      \* what base_route returned or the exception that left it, <<>> when none
  documents,     \* RPC_SPECIFICATION and RPC_SPECIFICATION_WRITE, parsed
  registries,    \* the registries that runs of _load_schemas built, the n-th built at n
  cache,         \* the lru_cache of _load_schemas: <<>> or the position of the cached registry
  disable_rpc_request_validation \* the flag the devnet was started with

vars ==
  <<blocks, origin_raises, stage, body, returned,
    documents, registries, cache, disable_rpc_request_validation>>

\* what the loader reads and keeps, and what the command line set
schema_state == <<documents, registries, cache, disable_rpc_request_validation>>

None == "None"

(***************************************************************************)
(* Python string and integer primitives used by the code.                  *)
(***************************************************************************)
HexChars == <<"0", "1", "2", "3", "4", "5", "6", "7",
              "8", "9", "a", "b", "c", "d", "e", "f">>

RECURSIVE HexDigits(_)
HexDigits(v) ==
  IF v < 16 THEN <<HexChars[v + 1]>>
  ELSE HexDigits(v \div 16) \o <<HexChars[(v % 16) + 1]>>

\* hex(value) for value >= 0
hex(value) == <<"0", "x">> \o HexDigits(value)

\* str.lstrip(chars): drops leading characters while they belong to chars
RECURSIVE lstrip(_, _)
lstrip(s, chars) ==
  IF s = <<>> \/ Head(s) \notin chars THEN s ELSE lstrip(Tail(s), chars)

\* the characters of a string literal handed to lstrip
CharsOf(s) == {s[i] : i \in 1..Len(s)}

HasPrefix(s, p) == Len(s) >= Len(p) /\ SubSeq(s, 1, Len(p)) = p

\* int(s, 16): an optional 0x prefix, then one or more hex digits
HexBody(s) ==
  IF HasPrefix(s, <<"0", "x">>) THEN SubSeq(s, 3, Len(s)) ELSE s

IsHexString(s) ==
  /\ Len(HexBody(s)) > 0
  /\ \A i \in 1..Len(HexBody(s)) : HexBody(s)[i] \in CharsOf(HexChars)

HexValue(c) == (CHOOSE d \in 1..16 : HexChars[d] = c) - 1

RECURSIVE HexNumber(_)
HexNumber(ds) ==
  IF ds = <<>> THEN 0
  ELSE 16 * HexNumber(SubSeq(ds, 1, Len(ds) - 1)) + HexValue(ds[Len(ds)])

int16(s) == HexNumber(HexBody(s))

\* bytes.hex() of the big-endian value v held in n bytes: 2 * n digits, the
\* leading ones zero
bytes_hex(v, n) ==
  [i \in 1..(2 * n) |->
     IF i <= 2 * n - Len(HexDigits(v)) THEN "0"
     ELSE HexDigits(v)[i - (2 * n - Len(HexDigits(v)))]]

\* seq[i] of a Python list: a negative index counts from the end
InRange(seq, i) == -Len(seq) <= i /\ i < Len(seq)

PyItem(seq, i) == IF i >= 0 THEN seq[i + 1] ELSE seq[Len(seq) + i + 1]

\* {**a, **b}: the keys of both, b's value on a key of both
DictMerge(a, b) ==
  [k \in DOMAIN a \cup DOMAIN b |-> IF k \in DOMAIN b THEN b[k] ELSE a[k]]

(***************************************************************************)
(* Wire codec.                                                             *)
(***************************************************************************)
\* a faulty rpc_felt: the marker is 0x
rpc_felt_two_character_marker(value) == <<"0", "x">> \o lstrip(hex(value), {"0", "x"})

\* a faulty rpc_felt: lstrip takes the digit 1 as well
rpc_felt_stripping_ones(value) ==
  <<"0", "x", "0">> \o lstrip(hex(value), {"0", "x", "1"})

\* a faulty rpc_root: the first character stays
rpc_root_keeping_first(root) == <<"0", "x", "0">> \o root

rpc_felt(value) == <<"0", "x", "0">> \o lstrip(hex(value), {"0", "x"})

rpc_root(root) == <<"0", "x", "0">> \o SubSeq(root, 2, Len(root))

(***************************************************************************)
(* Outcomes of a call: a returned value or a raised exception.             *)
(***************************************************************************)
Return(v) == [ok |-> TRUE, value |-> v]

Raise(exc) == [ok |-> FALSE, exc |-> exc]

RpcError(code, message) ==
  [ok |-> FALSE, exc |-> "RpcError", code |-> code, message |-> message]

\* the statements after a call that returned: an exception passes through
Then(outcome, Rest(_)) == IF outcome.ok THEN Rest(outcome.value) ELSE outcome

\* try: ... except StarknetDevnetException: raise RpcError(code, message)
Try(outcome, code, message) ==
  IF ~outcome.ok /\ outcome.exc = "StarknetDevnetException"
  THEN RpcError(code, message)
  ELSE outcome

(***************************************************************************)
(* The chain-state engine behind state.starknet_wrapper.  Transactions are *)
(* numbered 1, 2, ... in the order the engine accepted them; the i-th one  *)
(* has hash TxHashOf(i); a deploy creates contract i, an invoke calls the  *)
(* contract deployed just before it.                                       *)
(***************************************************************************)
TxHashOf(i) == 15 + i

BlockHashOf(n) == n + 1

StateRootOf(n) == n + 1

ClassHashOf(address) == 32 + address

Config == [sequencer_address |-> 0, chain_id |-> 5]

\* the engine's workload: a contract is deployed, then invoked, and so on
TxTypeOf(i) == IF i % 2 = 1 THEN "DEPLOY" ELSE "INVOKE_FUNCTION"

Transaction(i) ==
  IF TxTypeOf(i) = "DEPLOY"
  THEN [tx_type |-> "DEPLOY",
        transaction_hash |-> TxHashOf(i),
        contract_address |-> i,
        constructor_calldata |-> IF i % 4 = 1 THEN <<>> ELSE <<i>>]
  ELSE [tx_type |-> "INVOKE_FUNCTION",
        transaction_hash |-> TxHashOf(i),
        contract_address |-> i - 1,
        entry_point_selector |-> 1,
        calldata |-> <<i>>,
        max_fee |-> i]

RECURSIVE NumTransactions(_)
NumTransactions(bs) ==
  IF bs = <<>> THEN 0
  ELSE Len(bs[Len(bs)].transactions) + NumTransactions(SubSeq(bs, 1, Len(bs) - 1))

\* the block the engine closes over its next n transactions
NewBlock(bs, n) ==
  [block_number |-> Len(bs),
   block_hash |-> BlockHashOf(Len(bs)),
   parent_block_hash |-> IF Len(bs) = 0 THEN 0 ELSE BlockHashOf(Len(bs) - 1),
   state_root |-> StateRootOf(Len(bs)),
   status |-> "ACCEPTED_ON_L2",
   timestamp |-> Len(bs),
   transactions |-> [i \in 1..n |-> Transaction(NumTransactions(bs) + i)]]

BlockNumbers == 0..(Len(blocks) - 1)

ChainTransactions ==
  UNION {{blocks[b].transactions[i] : i \in 1..Len(blocks[b].transactions)}
           : b \in 1..Len(blocks)}

DeployedAddresses ==
  {tx.contract_address : tx \in {t \in ChainTransactions : t.tx_type = "DEPLOY"}}

StarknetDevnetException == Raise("StarknetDevnetException")

\* blocks.get_by_hash(block_hash: str)
blocks_get_by_hash(block_hash) ==
  IF /\ IsHexString(block_hash)
     /\ \E n \in BlockNumbers : blocks[n + 1].block_hash = int16(block_hash)
  THEN Return(blocks[(CHOOSE n \in BlockNumbers :
                        blocks[n + 1].block_hash = int16(block_hash)) + 1])
  ELSE StarknetDevnetException

\* blocks.get_by_number(block_number: int)
blocks_get_by_number(block_number) ==
  IF block_number \in BlockNumbers
  THEN Return(blocks[block_number + 1])
  ELSE StarknetDevnetException

blocks_get_number_of_blocks == Len(blocks)

IsDeploy(tx) == tx.tx_type = "DEPLOY"

IsInvoke(tx) == tx.tx_type = "INVOKE_FUNCTION"

\* the BlockStateUpdate of a block: every invoke writes its calldata under
\* key 1 of its contract, every deploy adds its contract
StateUpdateOf(block) ==
  [block_hash |-> block.block_hash,
   new_root |-> block.state_root,
   old_root |-> IF block.block_number = 0 THEN 0
                ELSE blocks[block.block_number].state_root,
   state_diff |->
     [storage_diffs |->
        [i \in 1..Len(SelectSeq(block.transactions, IsInvoke)) |->
           [address |-> SelectSeq(block.transactions, IsInvoke)[i].contract_address,
            diffs |-> <<[key |-> 1,
                         value |-> SelectSeq(block.transactions, IsInvoke)[i].calldata[1]]>>]],
      deployed_contracts |->
        [i \in 1..Len(SelectSeq(block.transactions, IsDeploy)) |->
           [address |-> SelectSeq(block.transactions, IsDeploy)[i].contract_address,
            class_hash |->
              ClassHashOf(SelectSeq(block.transactions, IsDeploy)[i].contract_address)]]]]

\* blocks.get_state_update(block_hash: str)
blocks_get_state_update(block_hash) ==
  Then(blocks_get_by_hash(block_hash), LAMBDA block : Return(StateUpdateOf(block)))

KnownTransaction(transaction_hash) ==
  /\ IsHexString(transaction_hash)
  /\ \E tx \in ChainTransactions : tx.transaction_hash = int16(transaction_hash)

TransactionByHash(transaction_hash) ==
  CHOOSE tx \in ChainTransactions : tx.transaction_hash = int16(transaction_hash)

\* transactions.get_transaction(transaction_hash: str)
transactions_get_transaction(transaction_hash) ==
  IF KnownTransaction(transaction_hash)
  THEN Return([status |-> "ACCEPTED_ON_L2",
               transaction |-> TransactionByHash(transaction_hash)])
  ELSE IF origin_raises \/ ~IsHexString(transaction_hash)
       THEN StarknetDevnetException
       ELSE Return([status |-> "NOT_RECEIVED"])

\* the receipt of an accepted transaction; an optional field that is unset
\* is <<>>, one that is set to x is <<x>>
ReceiptOf(tx) ==
  [transaction_hash |-> tx.transaction_hash,
   status |-> "ACCEPTED_ON_L2",
   actual_fee |-> IF IsInvoke(tx) THEN <<tx.max_fee>> ELSE <<>>,
   l2_to_l1_messages |-> <<>>,
   l1_to_l2_consumed_message |-> <<>>,
   events |-> IF IsInvoke(tx)
              THEN <<[from_address |-> tx.contract_address,
                      keys |-> <<1>>, data |-> tx.calldata]>>
              ELSE <<>>]

\* transactions.get_transaction_receipt(tx_hash: str)
transactions_get_transaction_receipt(tx_hash) ==
  IF KnownTransaction(tx_hash)
  THEN Return(ReceiptOf(TransactionByHash(tx_hash)))
  ELSE IF origin_raises \/ ~IsHexString(tx_hash)
       THEN StarknetDevnetException
       ELSE Return(
         [transaction_hash |-> int16(tx_hash),
          status |-> "NOT_RECEIVED",
          actual_fee |-> <<>>,
          l2_to_l1_messages |-> <<>>,
          l1_to_l2_consumed_message |-> <<>>,
          events |-> <<>>])

\* contracts.is_deployed(address: int)
contracts_is_deployed(address) == address \in DeployedAddresses

\* contracts.get_code(address: int)
contracts_get_code(address) ==
  IF address \in DeployedAddresses
  THEN Return([bytecode |-> <<hex(address)>>, abi |-> "abi"])
  ELSE IF origin_raises THEN StarknetDevnetException
       ELSE Return([bytecode |-> <<>>, abi |-> "abi"])

\* contracts.get_class_hash_at(address: int)
contracts_get_class_hash_at(address) ==
  IF address \in DeployedAddresses
  THEN Return(ClassHashOf(address))
  ELSE StarknetDevnetException

\* contracts.get_class_by_hash(class_hash: int)
contracts_get_class_by_hash(class_hash) ==
  IF \E address \in DeployedAddresses : ClassHashOf(address) = class_hash
  THEN Return(
    [program |-> class_hash,
     entry_points_by_type |->
       [CONSTRUCTOR |-> <<>>,
        EXTERNAL |-> <<[selector |-> 1, offset |-> class_hash]>>,
        L1_HANDLER |-> <<>>]])
  ELSE StarknetDevnetException

\* starknet_wrapper.get_storage_at(contract_address: int, key: int)
starknet_get_storage_at(contract_address, key) == hex(0)

\* starknet_wrapper.call(transaction): the contract has one entry point,
\* selector 1, which takes no calldata
starknet_call(transaction) ==
  IF transaction.entry_point_selector # 1
  THEN [ok |-> FALSE, exc |-> "StarkException",
        message |-> [text |-> "Entry point not found",
                     selector |-> hex(transaction.entry_point_selector)]]
  ELSE IF transaction.calldata # <<>>
       THEN [ok |-> FALSE, exc |-> "StarkException",
             message |-> [text |-> "While handling calldata", selector |-> <<>>]]
       ELSE Return([result |-> <<hex(0)>>])

(***************************************************************************)
(* Domain translators.                                                     *)
(***************************************************************************)
FeltList(values) == [i \in 1..Len(values) |-> rpc_felt(values[i])]

rpc_invoke_transaction(transaction) ==
  [contract_address |-> rpc_felt(transaction.contract_address),
   entry_point_selector |-> rpc_felt(transaction.entry_point_selector),
   calldata |-> FeltList(transaction.calldata),
   max_fee |-> rpc_felt(transaction.max_fee),
   txn_hash |-> rpc_felt(transaction.transaction_hash)]

\* a faulty rpc_deploy_transaction: no max_fee
rpc_deploy_transaction_without_fee(transaction) ==
  [contract_address |-> rpc_felt(transaction.contract_address),
   entry_point_selector |-> None,
   calldata |-> IF transaction.constructor_calldata = <<>> THEN None
                ELSE FeltList(transaction.constructor_calldata),
   txn_hash |-> rpc_felt(transaction.transaction_hash)]

rpc_deploy_transaction(transaction) ==
  [contract_address |-> rpc_felt(transaction.contract_address),
   entry_point_selector |-> None,
   calldata |-> IF transaction.constructor_calldata = <<>> THEN None
                ELSE FeltList(transaction.constructor_calldata),
   max_fee |-> rpc_felt(0),
   txn_hash |-> rpc_felt(transaction.transaction_hash)]

rpc_transaction(transaction) ==
  IF transaction.tx_type = "DEPLOY"
  THEN rpc_deploy_transaction(transaction)
  ELSE rpc_invoke_transaction(transaction)

ReceiptStatus(status) ==
  IF status = None \/ status = "NOT_RECEIVED" THEN "UNKNOWN" ELSE status

rpc_transaction_receipt(txr) ==
  [txn_hash |-> rpc_felt(txr.transaction_hash),
   status |-> ReceiptStatus(txr.status),
   statusData |-> "",
   messages_sent |->
     [i \in 1..Len(txr.l2_to_l1_messages) |->
        [to_address |-> txr.l2_to_l1_messages[i].to_address,
         payload |-> FeltList(txr.l2_to_l1_messages[i].payload)]],
   l1_origin_message |->
     IF txr.l1_to_l2_consumed_message = <<>> THEN None
     ELSE [from_address |-> txr.l1_to_l2_consumed_message[1].from_address,
           payload |-> FeltList(txr.l1_to_l2_consumed_message[1].payload)],
   events |->
     [i \in 1..Len(txr.events) |->
        [from_address |-> rpc_felt(txr.events[i].from_address),
         keys |-> FeltList(txr.events[i].keys),
         data |-> FeltList(txr.events[i].data)]],
   actual_fee |-> rpc_felt(IF txr.actual_fee = <<>> THEN 0 ELSE txr.actual_fee[1])]

get_transaction_receipt(a) ==
  Then(Try(transactions_get_transaction_receipt(a.transaction_hash),
           25, "Invalid transaction hash"),
       LAMBDA result :
         IF result.status = "NOT_RECEIVED"
         THEN RpcError(25, "Invalid transaction hash")
         ELSE Return(rpc_transaction_receipt(result)))

\* the scopes rpc_block's mapping knows
BlockScopes == {"TXN_HASH", "FULL_TXNS", "FULL_TXN_AND_RECEIPTS"}

\* a faulty rpc_block.transactions: the last transaction first
block_transactions_reversed(block) ==
  [i \in 1..Len(block.transactions) |->
     rpc_transaction(block.transactions[Len(block.transactions) + 1 - i])]

\* rpc_block.transactions
block_transactions(block) ==
  [i \in 1..Len(block.transactions) |-> rpc_transaction(block.transactions[i])]

\* rpc_block.transaction_hashes
transaction_hashes(_transactions) ==
  [i \in 1..Len(_transactions) |-> _transactions[i].txn_hash]

\* a faulty merge: the receipts are fetched and then left out
Combined_without_receipts(_transactions, receipts) ==
  IF \E i \in 1..Len(receipts) : ~receipts[i].ok
  THEN receipts[CHOOSE i \in 1..Len(receipts) :
                  ~receipts[i].ok /\ \A j \in 1..(i - 1) : receipts[j].ok]
  ELSE Return(_transactions)

\* the loop of rpc_block.full_transactions over the receipts it fetched, in
\* transaction order: the first receipt that raised ends it
Combined(_transactions, receipts) ==
  IF \E i \in 1..Len(receipts) : ~receipts[i].ok
  THEN receipts[CHOOSE i \in 1..Len(receipts) :
                  ~receipts[i].ok /\ \A j \in 1..(i - 1) : receipts[j].ok]
  ELSE Return([i \in 1..Len(_transactions) |->
                 DictMerge(receipts[i].value, _transactions[i])])

\* rpc_block.full_transactions
full_transactions(_transactions) ==
  Combined(_transactions,
           [i \in 1..Len(_transactions) |->
              get_transaction_receipt([transaction_hash |-> _transactions[i].txn_hash])])

\* mapping[requested_scope]()
ScopedTransactions(_transactions, requested_scope) ==
  CASE requested_scope = "TXN_HASH" -> Return(transaction_hashes(_transactions))
    [] requested_scope = "FULL_TXNS" -> Return(_transactions)
    [] requested_scope = "FULL_TXN_AND_RECEIPTS" -> full_transactions(_transactions)
    [] OTHER -> Raise("KeyError")

\* rpc_block.new_root
new_root(block) == rpc_root(bytes_hex(block.state_root, RootBytes))

\* a faulty old_root: the root of the block itself
old_root_of_same_block(block_number) ==
  Then(blocks_get_by_number(block_number),
       LAMBDA same : Return(rpc_root(bytes_hex(same.state_root, RootBytes))))

\* rpc_block.old_root
old_root(block_number) ==
  IF block_number - 1 >= 0
  THEN Then(blocks_get_by_number(block_number - 1),
            LAMBDA previous : Return(rpc_root(bytes_hex(previous.state_root, RootBytes))))
  ELSE Return(rpc_root(bytes_hex(0, RootBytes)))

rpc_block(block, requested_scope) ==
  Then(ScopedTransactions(block_transactions(block), requested_scope),
       LAMBDA transactions :
         Then(old_root(block.block_number),
              LAMBDA _old_root :
                Return(
                  [block_hash |-> rpc_felt(block.block_hash),
                   parent_hash |-> rpc_felt(block.parent_block_hash),
                   block_number |-> block.block_number,
                   status |-> block.status,
                   sequencer |-> hex(Config.sequencer_address),
                   new_root |-> new_root(block),
                   old_root |-> _old_root,
                   accepted_time |-> block.timestamp,
                   transactions |-> transactions])))

RECURSIVE FlatStorageDiffs(_)
FlatStorageDiffs(storage_diffs) ==
  IF storage_diffs = <<>> THEN <<>>
  ELSE [i \in 1..Len(Head(storage_diffs).diffs) |->
          [address |-> rpc_felt(Head(storage_diffs).address),
           key |-> rpc_felt(Head(storage_diffs).diffs[i].key),
           value |-> rpc_felt(Head(storage_diffs).diffs[i].value)]]
       \o FlatStorageDiffs(Tail(storage_diffs))

rpc_state_update(state_update) ==
  Then(blocks_get_by_hash(hex(state_update.block_hash)),
       LAMBDA block :
         Return(
           [block_hash |-> rpc_felt(state_update.block_hash),
            new_root |-> rpc_root(bytes_hex(state_update.new_root, RootBytes)),
            old_root |-> rpc_root(bytes_hex(state_update.old_root, RootBytes)),
            accepted_time |-> block.timestamp,
            state_diff |->
              [storage_diffs |->
                 FlatStorageDiffs(state_update.state_diff.storage_diffs),
               contracts |->
                 [i \in 1..Len(state_update.state_diff.deployed_contracts) |->
                    [address |->
                       rpc_felt(state_update.state_diff.deployed_contracts[i].address),
                     contract_hash |->
                       rpc_root(bytes_hex(
                         state_update.state_diff.deployed_contracts[i].class_hash,
                         RootBytes))]]]]))

EntryPoints(entry_points) ==
  [i \in 1..Len(entry_points) |->
     [selector |-> rpc_felt(entry_points[i].selector),
      offset |-> rpc_felt(entry_points[i].offset)]]

rpc_contract_class(contract_class) ==
  [program |-> [base64 |-> contract_class.program],
   entry_point_by_type |->
     [CONSTRUCTOR |-> EntryPoints(contract_class.entry_points_by_type.CONSTRUCTOR),
      EXTERNAL |-> EntryPoints(contract_class.entry_points_by_type.EXTERNAL),
      L1_HANDLER |-> EntryPoints(contract_class.entry_points_by_type.L1_HANDLER)]]

(***************************************************************************)
(* Handlers.  Each takes its bound arguments, a function from parameter    *)
(* name to value, and returns an outcome.                                  *)
(***************************************************************************)
latest == <<"l", "a", "t", "e", "s", "t">>

\* int(s, 16)
ParseInt16(s) == IF IsHexString(s) THEN Return(int16(s)) ELSE Raise("ValueError")

get_block_by_hash(a) ==
  Then(Try(blocks_get_by_hash(a.block_hash), 24, "Invalid block hash"),
       LAMBDA result : rpc_block(result, a.requested_scope))

get_block_by_number(a) ==
  Then(Try(blocks_get_by_number(a.block_number), 26, "Invalid block number"),
       LAMBDA result : rpc_block(result, a.requested_scope))

get_state_update_by_hash(a) ==
  Then(Try(blocks_get_state_update(a.block_hash), 24, "Invalid block hash"),
       LAMBDA result : rpc_state_update(result))

get_storage_at(a) ==
  IF a.block_hash # latest
  THEN RpcError(-1, "Calls with block_hash != 'latest' are not supported currently.")
  ELSE Then(ParseInt16(a.contract_address),
            LAMBDA contract_address :
              IF ~contracts_is_deployed(contract_address)
              THEN RpcError(20, "Contract not found")
              ELSE Then(ParseInt16(a.key),
                        LAMBDA key :
                          Return(starknet_get_storage_at(contract_address, key))))

\* get_transaction_by_hash without its test of the NOT_RECEIVED status
get_transaction_by_hash_unchecked(a) ==
  Then(Try(transactions_get_transaction(a.transaction_hash),
           25, "Invalid transaction hash"),
       LAMBDA result :
         IF result.status = "NOT_RECEIVED"
         THEN Return(None)
         ELSE Return(rpc_transaction(result.transaction)))

get_transaction_by_hash(a) ==
  Then(Try(transactions_get_transaction(a.transaction_hash),
           25, "Invalid transaction hash"),
       LAMBDA result :
         IF result.status = "NOT_RECEIVED"
         THEN RpcError(25, "Invalid transaction hash")
         ELSE Return(rpc_transaction(result.transaction)))

\* block.transactions[index], then get_transaction_by_hash of its hash
TransactionAtIndex(block, index) ==
  IF ~InRange(block.transactions, index)
  THEN RpcError(27, "Invalid transaction index in a block")
  ELSE get_transaction_by_hash(
         [transaction_hash |->
            rpc_felt(PyItem(block.transactions, index).transaction_hash)])

get_transaction_by_block_hash_and_index(a) ==
  Then(Try(blocks_get_by_hash(a.block_hash), 24, "Invalid block hash"),
       LAMBDA block : TransactionAtIndex(block, a.index))

get_transaction_by_block_number_and_index(a) ==
  Then(Try(blocks_get_by_number(a.block_number), 26, "Invalid block number"),
       LAMBDA block : TransactionAtIndex(block, a.index))

get_code(a) ==
  Then(ParseInt16(a.contract_address),
       LAMBDA address :
         Then(Try(contracts_get_code(address), 20, "Contract not found"),
              LAMBDA result :
                IF Len(result.bytecode) = 0
                THEN RpcError(20, "Contract not found")
                ELSE Return([bytecode |-> result.bytecode,
                             abi |-> [json |-> result.abi]])))

get_class(a) ==
  Then(ParseInt16(a.class_hash),
       LAMBDA class_hash :
         Then(Try(contracts_get_class_by_hash(class_hash),
                  28, "The supplied contract class hash is invalid or unknown"),
              LAMBDA result : Return(rpc_contract_class(result))))

get_class_hash_at(a) ==
  Then(ParseInt16(a.contract_address),
       LAMBDA address :
         Then(Try(contracts_get_class_hash_at(address),
                  28, "The supplied contract class hash is invalid or unknown"),
              LAMBDA result : Return(rpc_felt(result))))

get_class_at(a) ==
  Then(ParseInt16(a.contract_address),
       LAMBDA address :
         Then(Try(Then(contracts_get_class_hash_at(address),
                       LAMBDA class_hash : contracts_get_class_by_hash(class_hash)),
                  20, "Contract not found"),
              LAMBDA result : Return(rpc_contract_class(result))))

get_block_transaction_count_by_hash(a) ==
  Then(Try(blocks_get_by_hash(a.block_hash), 24, "Invalid block hash"),
       LAMBDA block : Return(Len(block.transactions)))

\* get_block_transaction_count_by_number with the error code of its by-hash
\* twin
get_block_transaction_count_by_number_code24(a) ==
  Then(Try(blocks_get_by_number(a.block_number), 24, "Invalid block hash"),
       LAMBDA block : Return(Len(block.transactions)))

get_block_transaction_count_by_number(a) ==
  Then(Try(blocks_get_by_number(a.block_number), 26, "Invalid block number"),
       LAMBDA block : Return(Len(block.transactions)))

\* the int(..., 16) conversions of make_invoke_function raise ValueError on
\* an argument that is not hexadecimal
make_invoke_function(request_body) ==
  IF /\ IsHexString(request_body.contract_address)
     /\ IsHexString(request_body.entry_point_selector)
     /\ \A i \in 1..Len(request_body.calldata) : IsHexString(request_body.calldata[i])
  THEN Return(
    [contract_address |-> int16(request_body.contract_address),
     entry_point_selector |-> int16(request_body.entry_point_selector),
     calldata |-> [i \in 1..Len(request_body.calldata) |->
                     int16(request_body.calldata[i])],
     max_fee |-> 0,
     version |-> 0,
     signature |-> <<>>])
  ELSE Raise("ValueError")

\* the except clauses of call
CallFailure(ex, entry_point_selector) ==
  IF ex.ok THEN ex
  ELSE IF ex.exc = "StarknetDevnetException" THEN RpcError(-1, "ex.message")
  ELSE IF ex.exc # "StarkException" THEN ex
  ELSE IF /\ ex.message.text = "Entry point not found"
          /\ ex.message.selector = entry_point_selector
       THEN RpcError(21, "Invalid message selector")
  ELSE IF ex.message.text = "While handling calldata"
       THEN RpcError(22, "Invalid call data")
  ELSE RpcError(-1, "ex.message")

call(a) ==
  IF a.block_hash # latest
  THEN RpcError(-1, "Calls with block_hash != 'latest' are not supported currently.")
  ELSE Then(ParseInt16(a.contract_address),
            LAMBDA contract_address :
              IF ~contracts_is_deployed(contract_address)
              THEN RpcError(20, "Contract not found")
              ELSE CallFailure(
                     Then(make_invoke_function(
                            [contract_address |-> a.contract_address,
                             entry_point_selector |-> a.entry_point_selector,
                             calldata |-> a.calldata]),
                          LAMBDA transaction : starknet_call(transaction)),
                     a.entry_point_selector))

estimate_fee(a) == Return(None)

get_block_number(a) ==
  Return(IF blocks_get_number_of_blocks - 1 >= 0
         THEN blocks_get_number_of_blocks - 1
         ELSE 0)

chain_id(a) == Return(hex(Config.chain_id))

pending_transactions(a) == Raise("NotImplementedError")

PROTOCOL_VERSION == <<"0", ".", "8", ".", "0">>

\* the hex form of the UTF-8 byte of a character of PROTOCOL_VERSION
Utf8Hex(c) ==
  IF c = "." THEN <<"2", "e">> ELSE <<"3", c>>

RECURSIVE EncodeHex(_)
EncodeHex(s) ==
  IF s = <<>> THEN <<>> ELSE Utf8Hex(Head(s)) \o EncodeHex(Tail(s))

protocol_version(a) == Return(<<"0", "x">> \o EncodeHex(PROTOCOL_VERSION))

syncing(a) == Raise("NotImplementedError")

get_events(a) == Raise("NotImplementedError")

(***************************************************************************)
(* Dispatcher.                                                             *)
(***************************************************************************)
rpc_response(message_id, content) ==
  [jsonrpc |-> "2.0", id |-> message_id, result |-> content]

\* rpc_error built on the envelope of rpc_response, its result key kept
rpc_error_with_result(message_id, code, message) ==
  [jsonrpc |-> "2.0", id |-> message_id, result |-> None,
   error |-> [code |-> code, message |-> message]]

rpc_error(message_id, code, message) ==
  [jsonrpc |-> "2.0", id |-> message_id,
   error |-> [code |-> code, message |-> message]]

\* the namespace literal parse_body hands to lstrip
starknet_ == <<"s", "t", "a", "r", "k", "n", "e", "t", "_">>

methods ==
  <<
    [name |-> <<"g", "e", "t", "B", "l", "o", "c", "k", "B", "y", "N", "u", "m", "b", "e", "r">>,
     handler |-> "get_block_by_number"],
    [name |-> <<"g", "e", "t", "B", "l", "o", "c", "k", "B", "y", "H", "a", "s", "h">>,
     handler |-> "get_block_by_hash"],
    [name |-> <<"g", "e", "t", "S", "t", "a", "t", "e", "U", "p", "d", "a", "t", "e", "B", "y", "H", "a", "s", "h">>,
     handler |-> "get_state_update_by_hash"],
    [name |-> <<"g", "e", "t", "S", "t", "o", "r", "a", "g", "e", "A", "t">>,
     handler |-> "get_storage_at"],
    [name |-> <<"g", "e", "t", "T", "r", "a", "n", "s", "a", "c", "t", "i", "o", "n", "B", "y", "H", "a", "s", "h">>,
     handler |-> "get_transaction_by_hash"],
    [name |-> <<"g", "e", "t", "T", "r", "a", "n", "s", "a", "c", "t", "i", "o", "n", "B", "y", "B", "l", "o", "c", "k", "H", "a", "s", "h", "A", "n", "d", "I", "n", "d", "e", "x">>,
     handler |-> "get_transaction_by_block_hash_and_index"],
    [name |-> <<"g", "e", "t", "T", "r", "a", "n", "s", "a", "c", "t", "i", "o", "n", "B", "y", "B", "l", "o", "c", "k", "N", "u", "m", "b", "e", "r", "A", "n", "d", "I", "n", "d", "e", "x">>,
     handler |-> "get_transaction_by_block_number_and_index"],
    [name |-> <<"g", "e", "t", "T", "r", "a", "n", "s", "a", "c", "t", "i", "o", "n", "R", "e", "c", "e", "i", "p", "t">>,
     handler |-> "get_transaction_receipt"],
    [name |-> <<"g", "e", "t", "C", "o", "d", "e">>,
     handler |-> "get_code"],
    [name |-> <<"g", "e", "t", "B", "l", "o", "c", "k", "T", "r", "a", "n", "s", "a", "c", "t", "i", "o", "n", "C", "o", "u", "n", "t", "B", "y", "H", "a", "s", "h">>,
     handler |-> "get_block_transaction_count_by_hash"],
    [name |-> <<"g", "e", "t", "B", "l", "o", "c", "k", "T", "r", "a", "n", "s", "a", "c", "t", "i", "o", "n", "C", "o", "u", "n", "t", "B", "y", "N", "u", "m", "b", "e", "r">>,
     handler |-> "get_block_transaction_count_by_number"],
    [name |-> <<"c", "a", "l", "l">>,
     handler |-> "call"],
    [name |-> <<"b", "l", "o", "c", "k", "N", "u", "m", "b", "e", "r">>,
     handler |-> "get_block_number"],
    [name |-> <<"c", "h", "a", "i", "n", "I", "d">>,
     handler |-> "chain_id"],
    [name |-> <<"p", "e", "n", "d", "i", "n", "g", "T", "r", "a", "n", "s", "a", "c", "t", "i", "o", "n", "s">>,
     handler |-> "pending_transactions"],
    [name |-> <<"p", "r", "o", "t", "o", "c", "o", "l", "V", "e", "r", "s", "i", "o", "n">>,
     handler |-> "protocol_version"],
    [name |-> <<"s", "y", "n", "c", "i", "n", "g">>,
     handler |-> "syncing"],
    [name |-> <<"g", "e", "t", "E", "v", "e", "n", "t", "s">>,
     handler |-> "get_events"],
    [name |-> <<"g", "e", "t", "C", "l", "a", "s", "s">>,
     handler |-> "get_class"],
    [name |-> <<"g", "e", "t", "C", "l", "a", "s", "s", "H", "a", "s", "h", "A", "t">>,
     handler |-> "get_class_hash_at"],
    [name |-> <<"g", "e", "t", "C", "l", "a", "s", "s", "A", "t">>,
     handler |-> "get_class_at"],
    [name |-> <<"e", "s", "t", "i", "m", "a", "t", "e", "F", "e", "e">>,
     handler |-> "estimate_fee"]
  >>

MethodNames == {methods[i].name : i \in DOMAIN methods}

HandlerOf(method_name) ==
  methods[CHOOSE i \in DOMAIN methods : methods[i].name = method_name].handler

StripNamespace(method) == lstrip(method, CharsOf(starknet_))

parse_body(request_json) ==
  LET method_name == StripNamespace(request_json.method)
  IN IF {"method", "params", "id"} \ DOMAIN request_json # {}
     THEN Raise("KeyError")
     ELSE IF method_name \notin MethodNames
          THEN RpcError(-1, "Method not found")
          ELSE Return([method |-> HandlerOf(method_name),
                       args |-> request_json.params,
                       message_id |-> request_json.id])

\* the parameter lists of the handlers' def lines
Required(name) == [name |-> name, required |-> TRUE, default |-> None]

Defaulted(name, default) == [name |-> name, required |-> FALSE, default |-> default]

Signature(handler) ==
  CASE handler = "get_block_by_hash" ->
         <<Required("block_hash"), Defaulted("requested_scope", "TXN_HASH")>>
    [] handler = "get_block_by_number" ->
         <<Required("block_number"), Defaulted("requested_scope", "TXN_HASH")>>
    [] handler \in {"get_state_update_by_hash", "get_block_transaction_count_by_hash"} ->
         <<Required("block_hash")>>
    [] handler = "get_storage_at" ->
         <<Required("contract_address"), Required("key"), Required("block_hash")>>
    [] handler \in {"get_transaction_by_hash", "get_transaction_receipt"} ->
         <<Required("transaction_hash")>>
    [] handler = "get_transaction_by_block_hash_and_index" ->
         <<Required("block_hash"), Required("index")>>
    [] handler = "get_transaction_by_block_number_and_index" ->
         <<Required("block_number"), Required("index")>>
    [] handler \in {"get_code", "get_class_hash_at", "get_class_at"} ->
         <<Required("contract_address")>>
    [] handler = "get_class" ->
         <<Required("class_hash")>>
    [] handler = "get_block_transaction_count_by_number" ->
         <<Required("block_number")>>
    [] handler = "call" ->
         <<Required("contract_address"), Required("entry_point_selector"),
           Required("calldata"), Defaulted("block_hash", <<>>)>>
    [] OTHER -> <<>>

\* method(*args) or method(**args): Python's binding of a call's arguments
Bind(signature, args) ==
  LET names == {signature[i].name : i \in DOMAIN signature}
      IndexOf(n) == CHOOSE i \in DOMAIN signature : signature[i].name = n
  IN IF "list" \in DOMAIN args
     THEN IF \/ Len(args.list) > Len(signature)
             \/ \E i \in DOMAIN signature :
                  i > Len(args.list) /\ signature[i].required
          THEN Raise("TypeError")
          ELSE Return([n \in names |->
                         IF IndexOf(n) <= Len(args.list)
                         THEN args.list[IndexOf(n)]
                         ELSE signature[IndexOf(n)].default])
     ELSE IF \/ ~(DOMAIN args.dict \subseteq names)
             \/ \E i \in DOMAIN signature :
                  signature[i].required /\ signature[i].name \notin DOMAIN args.dict
          THEN Raise("TypeError")
          ELSE Return([n \in names |->
                         IF n \in DOMAIN args.dict
                         THEN args.dict[n]
                         ELSE signature[IndexOf(n)].default])

Invoke(handler, a) ==
  CASE handler = "get_block_by_number" -> get_block_by_number(a)
    [] handler = "get_block_by_hash" -> get_block_by_hash(a)
    [] handler = "get_state_update_by_hash" -> get_state_update_by_hash(a)
    [] handler = "get_storage_at" -> get_storage_at(a)
    [] handler = "get_transaction_by_hash" -> get_transaction_by_hash(a)
    [] handler = "get_transaction_by_block_hash_and_index" ->
         get_transaction_by_block_hash_and_index(a)
    [] handler = "get_transaction_by_block_number_and_index" ->
         get_transaction_by_block_number_and_index(a)
    [] handler = "get_transaction_receipt" -> get_transaction_receipt(a)
    [] handler = "get_code" -> get_code(a)
    [] handler = "get_block_transaction_count_by_hash" ->
         get_block_transaction_count_by_hash(a)
    [] handler = "get_block_transaction_count_by_number" ->
         get_block_transaction_count_by_number(a)
    [] handler = "call" -> call(a)
    [] handler = "get_block_number" -> get_block_number(a)
    [] handler = "chain_id" -> chain_id(a)
    [] handler = "pending_transactions" -> pending_transactions(a)
    [] handler = "protocol_version" -> protocol_version(a)
    [] handler = "syncing" -> syncing(a)
    [] handler = "get_events" -> get_events(a)
    [] handler = "get_class" -> get_class(a)
    [] handler = "get_class_hash_at" -> get_class_hash_at(a)
    [] handler = "get_class_at" -> get_class_at(a)
    [] handler = "estimate_fee" -> estimate_fee(a)

\* an exception that leaves base_route: the request gets no JSON-RPC envelope
Unhandled(exc) == [exception |-> exc]

\* method(*args) if isinstance(args, list) else method(**args)
CallMethod(method, args) ==
  Then(Bind(Signature(method), args), LAMBDA a : Invoke(method, a))

\* the try statement of base_route around the call
Answer(message_id, result) ==
  IF result.ok THEN rpc_response(message_id, result.value)
  ELSE IF result.exc = "NotImplementedError"
       THEN rpc_error(message_id, -2, "Method not implemented")
  ELSE IF result.exc = "RpcError"
       THEN rpc_error(message_id, result.code, result.message)
  ELSE Unhandled(result.exc)

\* base_route after parse_body: an exception of parse_body is raised outside
\* the try statement
Dispatch(parsed) ==
  IF ~parsed.ok THEN Unhandled(parsed.exc)
  ELSE Answer(parsed.value.message_id,
              CallMethod(parsed.value.method, parsed.value.args))

\* what base_route makes of request_json
Respond(request_json) == Dispatch(parse_body(request_json))

StageOf(resp) ==
  IF "result" \in DOMAIN resp THEN "RESPONDED"
  ELSE IF "error" \in DOMAIN resp THEN "ERROR_RESPONDED"
  ELSE "FAILED"

(***************************************************************************)
(* The requests explored.                                                  *)
(***************************************************************************)
Ids == {0, 1}

ArgValues(name) ==
  CASE name = "block_hash" -> {hex(0), hex(1), hex(2), latest}
    [] name = "block_number" -> {-1, 0, 1, 99999}
    [] name = "index" -> {-1, 0, 1, 999999}
    [] name = "transaction_hash" -> {hex(0), hex(TxHashOf(1)), hex(TxHashOf(2))}
    [] name = "contract_address" -> {hex(0), hex(1), hex(2)}
    [] name = "key" -> {hex(0)}
    [] name = "class_hash" -> {hex(0), hex(ClassHashOf(1))}
    [] name = "entry_point_selector" -> {hex(1), hex(2)}
    [] name = "calldata" -> {<<>>, <<hex(1)>>}
    [] name = "requested_scope" -> BlockScopes \cup {"BOGUS"}
    [] OTHER -> {None}

RECURSIVE PositionalOver(_)
PositionalOver(names) ==
  IF names = <<>> THEN {<<>>}
  ELSE {<<v>> \o t : v \in ArgValues(Head(names)), t \in PositionalOver(Tail(names))}

RECURSIVE KeyedOver(_)
KeyedOver(names) ==
  IF names = <<>> THEN {<<>>}
  ELSE {(Head(names) :> v) @@ f :
          v \in ArgValues(Head(names)), f \in KeyedOver(Tail(names))}

Representative(S) == {CHOOSE x \in S : TRUE}

\* every well-bound argument list of the signature, by position and by name,
\* and one each of: an argument too few, an argument too many, a missing
\* keyword, an unknown keyword
ParamsFor(signature) ==
  LET names == [i \in DOMAIN signature |-> signature[i].name]
      required == Cardinality({i \in DOMAIN signature : signature[i].required})
      bound == UNION {{SubSeq(names, 1, l)} : l \in required..Len(names)}
      short == IF required = 0 THEN {} ELSE {SubSeq(names, 1, required - 1)}
  IN UNION {{[list |-> t] : t \in PositionalOver(ns)} : ns \in bound}
     \cup UNION {{[dict |-> f] : f \in KeyedOver(ns)} : ns \in bound}
     \cup UNION {{[list |-> t] : t \in Representative(PositionalOver(ns))} : ns \in short}
     \cup UNION {{[dict |-> f] : f \in Representative(KeyedOver(Tail(ns)))}
                   : ns \in bound \ {<<>>}}
     \cup {[list |-> t] : t \in Representative(PositionalOver(names \o <<"extra">>))}
     \cup {[dict |-> f] : f \in Representative(KeyedOver(names \o <<"extra">>))}

foo == <<"f", "o", "o">>

MethodStrings ==
  MethodNames
    \cup {starknet_ \o name : name \in MethodNames}
    \cup {foo, starknet_ \o foo}
    \cup {<<"t", "a", "r">> \o <<"c", "h", "a", "i", "n", "I", "d">>,
          starknet_ \o starknet_ \o <<"c", "h", "a", "i", "n", "I", "d">>}

\* requests that take no argument, sent whatever the method is
Bare == {[list |-> <<>>], [dict |-> <<>>]}

\* clients name a method in its namespaced form; under it every argument list
\* of the handler is explored, under any other method string the bare ones
ParamsOf(method) ==
  IF HasPrefix(method, starknet_) /\ StripNamespace(method) \in MethodNames
  THEN ParamsFor(Signature(HandlerOf(StripNamespace(method))))
  ELSE Bare

Request(method, params, id) ==
  [jsonrpc |-> "2.0", id |-> id, method |-> method, params |-> params]

\* bodies that lack a field of the envelope
Malformed(id) ==
  {[jsonrpc |-> "2.0", id |-> id, params |-> [list |-> <<>>]],
   [jsonrpc |-> "2.0", id |-> id, method |-> foo],
   [jsonrpc |-> "2.0", method |-> foo, params |-> [list |-> <<>>]]}

(***************************************************************************)
(* Request validation (blueprints/rpc/schema.py).  A JSON string is its    *)
(* text; the other JSON values the requests carry are named: "12345" is    *)
(* the number, "{call}" a well-formed function call object and "{call      *)
(* without contract_address}" one that lacks a required member.  The       *)
(* specification documents are not part of the front end: the registry is  *)
(* modelled by a few method specs, each an ordered list of named parameter *)
(* schemas, and jsonschema.validate by the values each schema admits.      *)
(***************************************************************************)
\* Contains(s, p): p in s
Contains(s, p) == \E i \in 1..(Len(s) - Len(p) + 1) : SubSeq(s, i, i + Len(p) - 1) = p

_construct_method_name(method_name) ==
  IF ~Contains(method_name, starknet_) THEN starknet_ \o method_name ELSE method_name

\* the parameters of one method spec: methods[name]["params"]
Param(name, schema, is_required) ==
  [name |-> name, schema |-> schema, is_required |-> is_required]

\* the method specs of the loaded documents, by method name
RPC_SPECIFICATION(name) ==
  CASE name = starknet_ \o <<"c", "a", "l", "l">> ->
         <<Param("request", "FUNCTION_CALL", TRUE), Param("block_id", "BLOCK_ID", TRUE)>>
    [] name = starknet_ \o <<"m", "e", "t", "h", "o", "d">> ->
         <<Param("key", "STORAGE_KEY", TRUE), Param("value", "STORAGE_KEY", FALSE)>>
    [] name = starknet_ \o <<"t", "e", "x", "t">> ->
         <<Param("text", "string", TRUE)>>
    [] name = starknet_ \o <<"b", "l", "o", "c", "k", "N", "u", "m", "b", "e", "r">> ->
         <<>>

RegisteredNames ==
  {starknet_ \o <<"c", "a", "l", "l">>,
   starknet_ \o <<"m", "e", "t", "h", "o", "d">>,
   starknet_ \o <<"t", "e", "x", "t">>,
   starknet_ \o <<"b", "l", "o", "c", "k", "N", "u", "m", "b", "e", "r">>}

\* the OrderedDict of a method's parameter schemas, in parameter order;
\* methods[name] raises KeyError for a name no document has
_request_schemas_for_method(name) ==
  IF name \in RegisteredNames THEN Return(RPC_SPECIFICATION(name)) ELSE Raise("KeyError")

JsonStrings == {"latest", "missing", "0x01"}

\* jsonschema.validate(instance, schema) raises nothing
Conforms(instance, schema) ==
  CASE schema = "FUNCTION_CALL" -> instance = "{call}"
    [] schema = "BLOCK_ID" -> instance = "latest"
    [] schema = "STORAGE_KEY" -> instance = "0x01"
    [] schema = "string" -> instance \in JsonStrings

ValidationError(message) ==
  [ok |-> FALSE, exc |-> "ValidationError", message |-> message]

\* validate(instance, schema)
validate(instance, schema) ==
  IF Conforms(instance, schema) THEN Return(None)
  ELSE ValidationError(<<instance, " is not valid under ", schema>>)

\* zip_longest(schemas.keys(), args, fillvalue="missing")
fillvalue == "missing"

zip_longest(schemas, args) ==
  [i \in 1..(IF Len(schemas) > Len(args) THEN Len(schemas) ELSE Len(args)) |->
     <<IF i <= Len(schemas) THEN schemas[i].name ELSE fillvalue,
       IF i <= Len(args) THEN args[i] ELSE fillvalue>>]

\* one turn of the loop over the positional arguments
ValidateArg(schemas, i, arg) ==
  IF arg = fillvalue
  THEN ValidationError(<<"Missing arg for ", schemas[i].name, ".">>)
  ELSE validate(arg, schemas[i].schema)

\* one turn of the loop over the schemas of keyword arguments
ValidateKwarg(schemas, i, kwargs) ==
  IF schemas[i].name \notin DOMAIN kwargs
  THEN ValidationError(<<"Missing kwarg for ", schemas[i].name, ".">>)
  ELSE validate(kwargs[schemas[i].name], schemas[i].schema)

\* a loop whose turns have these outcomes: the first that raised ends it
FirstRaised(turns) ==
  IF \E i \in DOMAIN turns : ~turns[i].ok
  THEN turns[CHOOSE i \in DOMAIN turns : ~turns[i].ok /\ \A j \in 1..(i - 1) : turns[j].ok]
  ELSE Return(None)

\* a faulty positional branch: zip instead of zip_longest
validate_args_zip(schemas, args) ==
  IF Len(args) > Len(schemas) THEN ValidationError(<<"Too many arguments provided.">>)
  ELSE FirstRaised([i \in 1..Len(args) |-> ValidateArg(schemas, i, args[i])])

\* if args:
validate_args(schemas, args) ==
  IF Len(args) > Len(schemas) THEN ValidationError(<<"Too many arguments provided.">>)
  ELSE FirstRaised([i \in 1..Len(schemas) |->
                      ValidateArg(schemas, i, zip_longest(schemas, args)[i][2])])

\* a faulty keyword branch: the number of arguments is not looked at
validate_kwargs_uncounted(schemas, kwargs) ==
  FirstRaised([i \in 1..Len(schemas) |-> ValidateKwarg(schemas, i, kwargs)])

\* if kwargs:
validate_kwargs(schemas, kwargs) ==
  IF Cardinality(DOMAIN kwargs) > Len(schemas)
  THEN ValidationError(<<"Too many arguments provided.">>)
  ELSE FirstRaised([i \in 1..Len(schemas) |-> ValidateKwarg(schemas, i, kwargs)])

\* the body of assert_valid_rpc_request once it has the schemas
ValidateAgainst(schemas, args, kwargs) ==
  IF args # <<>> /\ DOMAIN kwargs # {}
  THEN Raise("ValueError")
  ELSE IF args # <<>> THEN validate_args(schemas, args)
  ELSE IF DOMAIN kwargs # {} THEN validate_kwargs(schemas, kwargs)
  ELSE IF Len(schemas) # 0
       THEN ValidationError(<<"0 arguments provided to function expecting ", "True",
                              " arguments.">>)
       ELSE Return(None)

assert_valid_rpc_request(args, kwargs, method_name) ==
  Then(_request_schemas_for_method(_construct_method_name(method_name)),
       LAMBDA schemas : ValidateAgainst(schemas, args, kwargs))

\* a faulty wrapper: a failed request validation is passed over
Wrapped_passing_failures(outcome) ==
  IF ~outcome.ok /\ outcome.exc = "ValidationError" THEN Return(None) ELSE outcome

ParamsValidationErrorWrapper(err) ==
  [ok |-> FALSE, exc |-> "ParamsValidationErrorWrapper", message |-> err.message]

Wrapped(outcome) ==
  IF ~outcome.ok /\ outcome.exc = "ValidationError"
  THEN ParamsValidationErrorWrapper(outcome)
  ELSE outcome

\* method(*args) if isinstance(args, list) else method(**args), method wrapped
validate_schema(method_name, params) ==
  Wrapped(IF "list" \in DOMAIN params
          THEN assert_valid_rpc_request(params.list, <<>>, method_name)
          ELSE assert_valid_rpc_request(<<>>, params.dict, method_name))

(***************************************************************************)
(* The schema registry of src/starknet_devnet/blueprints/rpc/schema.py.    *)
(* A JSON object is a function from its keys; the properties of an object  *)
(* schema are a sequence of items, in the order the document lists them.   *)
(***************************************************************************)
\* d[key] = value
SetItem(d, key, value) ==
  [k \in DOMAIN d \cup {key} |-> IF k = key THEN value ELSE d[k]]

Property(name, schema) == [name |-> name, schema |-> schema]

String == [type |-> "string"]

\* list(properties.keys())
dict_keys(properties) == [i \in DOMAIN properties |-> properties[i].name]

Composition == {"allOf", "anyOf", "oneOf"}

\* {method["name"]: method for method in methods}: the last of a name stays
by_name(method_list) ==
  [name \in {method_list[i].name : i \in DOMAIN method_list} |->
     method_list[CHOOSE i \in DOMAIN method_list :
                   /\ method_list[i].name = name
                   /\ \A j \in DOMAIN method_list : method_list[j].name = name => j <= i]]

\* a faulty back-fill: it descends into the properties
back_fill_nested(schema) ==
  IF "required" \notin DOMAIN schema /\ "properties" \in DOMAIN schema
  THEN SetItem(
         SetItem(schema, "properties",
                 [i \in DOMAIN schema.properties |->
                    Property(schema.properties[i].name,
                             IF "properties" \in DOMAIN schema.properties[i].schema
                             THEN SetItem(schema.properties[i].schema, "required",
                                          dict_keys(schema.properties[i].schema.properties))
                             ELSE schema.properties[i].schema)]),
         "required", dict_keys(schema.properties))
  ELSE schema

\* if "required" not in schema and "properties" in schema:
\*     schema["required"] = list(schema["properties"].keys())
back_fill(schema) ==
  IF "required" \notin DOMAIN schema /\ "properties" \in DOMAIN schema
  THEN SetItem(schema, "required", dict_keys(schema.properties))
  ELSE schema

\* if any(i for i in ("allOf", "anyOf", "oneOf")): the generator yields the
\* three strings themselves, and a string is true when it is not empty
mark_unevaluated(schema) ==
  IF \E i \in Composition : i # ""
  THEN SetItem(schema, "unevaluatedProperties", FALSE)
  ELSE schema

\* the body of _load_schemas: the pair (methods, schemas)
_load_schemas(RPC_SPECIFICATION_READ, RPC_SPECIFICATION_WRITE) ==
  [methods |-> DictMerge(by_name(RPC_SPECIFICATION_READ.methods),
                         by_name(RPC_SPECIFICATION_WRITE.methods)),
   schemas |-> [name \in DOMAIN RPC_SPECIFICATION_READ.components.schemas |->
                  mark_unevaluated(
                    back_fill(RPC_SPECIFICATION_READ.components.schemas[name]))]]

\* base_schema of a method in a registry
base_schema(registry, name) == registry.methods[name].result.schema

NoComposition(schema) == ~\E i \in Composition : i \in DOMAIN schema

\* the registry after _response_schema_for_method(name): base_schema is the
\* dict the registry holds, and line 78 assigns into it
resolved(registry, name) ==
  IF NoComposition(base_schema(registry, name))
  THEN [registry EXCEPT !.methods[name].result.schema =
                          SetItem(@, "additionalProperties", FALSE)]
  ELSE registry

\* what _response_schema_for_method(name) returns
_response_schema_for_method(registry, name) ==
  SetItem(base_schema(resolved(registry, name), name),
          "components", [schemas |-> registry.schemas])

\* jsonschema.validate(data, schema) raises nothing, for an object whose
\* values are strings
RECURSIVE Valid(_, _)
Valid(data, schema) ==
  /\ "required" \in DOMAIN schema =>
       \A i \in DOMAIN schema.required : schema.required[i] \in DOMAIN data
  /\ ("additionalProperties" \in DOMAIN schema /\ "properties" \in DOMAIN schema) =>
       \/ schema.additionalProperties
       \/ \A k \in DOMAIN data :
            \E i \in DOMAIN schema.properties : schema.properties[i].name = k
  /\ "allOf" \in DOMAIN schema =>
       \A i \in DOMAIN schema.allOf : Valid(data, schema.allOf[i])
  /\ "anyOf" \in DOMAIN schema =>
       \E i \in DOMAIN schema.anyOf : Valid(data, schema.anyOf[i])
  /\ "oneOf" \in DOMAIN schema =>
       Cardinality({i \in DOMAIN schema.oneOf : Valid(data, schema.oneOf[i])}) = 1

\* assert_valid_rpc_schema(data, method_name) on a registry
assert_valid_rpc_schema(registry, data, method_name) ==
  IF _construct_method_name(method_name) \notin DOMAIN registry.methods
  THEN Raise("KeyError")
  ELSE IF Valid(data, _response_schema_for_method(
                        registry, _construct_method_name(method_name)))
  THEN Return(None)
  ELSE ValidationError(<<"Failed validating the response">>)

ResponseValidationErrorWrapper(err) ==
  [ok |-> FALSE, exc |-> "ResponseValidationErrorWrapper", message |-> err.message]

\* ---- the documents ----
Object(properties) ==
  [type |-> "object", properties |-> properties, required |-> dict_keys(properties)]

Method(name, result_schema) ==
  [name |-> name, params |-> RPC_SPECIFICATION(name),
   result |-> [name |-> "result", schema |-> result_schema]]

\* properties of which one is an object schema itself, with no required list
NestedProperties ==
  <<Property("block_hash", String),
    Property("status", [type |-> "object",
                        properties |-> <<Property("code", String)>>])>>

Branches ==
  <<Object(<<Property("block_number", String)>>),
    Object(<<Property("error", String)>>)>>

\* a fragment with or without properties, a required list and a composition
Fragment(has_properties, has_required, composition) ==
  LET typed == [type |-> "object"]
      with_properties ==
        IF has_properties THEN SetItem(typed, "properties", NestedProperties) ELSE typed
      with_required ==
        IF has_required THEN SetItem(with_properties, "required", <<"block_hash">>)
        ELSE with_properties
  IN IF composition \in Composition
     THEN SetItem(with_required, composition, Branches)
     ELSE with_required

FragmentShapes ==
  {Fragment(has_properties, has_required, composition) :
     has_properties \in BOOLEAN, has_required \in BOOLEAN,
     composition \in Composition \cup {"none"}}

\* the read document with one fragment of a given shape
ReadDocument(fragment) ==
  [methods |->
     <<Method(starknet_ \o <<"c", "a", "l", "l">>,
              Object(<<Property("result", String)>>)),
       Method(starknet_ \o <<"b", "l", "o", "c", "k", "N", "u", "m", "b", "e", "r">>,
              [oneOf |-> Branches]),
       Method(starknet_ \o <<"t", "e", "x", "t">>,
              SetItem(Object(<<Property("text", String)>>),
                      "additionalProperties", FALSE))>>,
   components |-> [schemas |-> [FELT |-> String, BLOCK_HEADER |-> fragment]]]

\* the write document, and one that also carries a name of the read document
WriteDocument ==
  [methods |->
     <<Method(starknet_ \o <<"m", "e", "t", "h", "o", "d">>,
              Object(<<Property("value", String)>>))>>]

WriteDocumentRedefining ==
  [methods |->
     WriteDocument.methods
       \o <<[name |-> starknet_ \o <<"c", "a", "l", "l">>,
             params |-> <<>>,
             result |-> [name |-> "result", schema |-> [oneOf |-> Branches]]]>>]

DocumentPairs ==
  {[read |-> ReadDocument(fragment), write |-> write] :
     fragment \in FragmentShapes, write \in {WriteDocument, WriteDocumentRedefining}}

\* the documents the devnet ships
ShippedDocuments ==
  [read |-> ReadDocument(Fragment(TRUE, FALSE, "none")), write |-> WriteDocument]

\* Bound of the argument lists handed to validation.
MaxArgs == 2

JsonValues ==
  JsonStrings \cup {"12345", "{call}", "{call without contract_address}"}

RECURSIVE ListsOfLength(_)
ListsOfLength(n) ==
  IF n = 0 THEN {<<>>}
  ELSE {<<v>> \o t : v \in JsonValues, t \in ListsOfLength(n - 1)}

\* the names validate_schema is given, with and without the namespace, and
\* one that no document has
DecoratedNames ==
  {<<"c", "a", "l", "l">>, <<"t", "e", "x", "t">>, foo,
   starknet_ \o <<"m", "e", "t", "h", "o", "d">>,
   starknet_ \o <<"b", "l", "o", "c", "k", "N", "u", "m", "b", "e", "r">>}

\* the parameter names of a method and one it does not have
KeysFor(method_name) ==
  LET schemas == _request_schemas_for_method(_construct_method_name(method_name))
  IN (IF schemas.ok THEN {schemas.value[i].name : i \in DOMAIN schemas.value} ELSE {})
       \cup {"extra"}

\* params of a request: an array of up to MaxArgs + 1 values or an object
\* over some of the keys
SchemaParams(method_name) ==
  {[list |-> args] : args \in UNION {ListsOfLength(n) : n \in 0..(MaxArgs + 1)}}
    \cup {[dict |-> kwargs] :
            kwargs \in UNION {[keys -> JsonValues] : keys \in SUBSET KeysFor(method_name)}}

\* no registry is built and request validation is on
NothingLoaded ==
  /\ documents = ShippedDocuments
  /\ registries = <<>>
  /\ cache = <<>>

(***************************************************************************)
(* The state machine.  base_route handles one POST at a time; the engine   *)
(* closes blocks between two requests.                                     *)
(***************************************************************************)
Init ==
  /\ blocks = <<>>
  /\ origin_raises \in BOOLEAN
  /\ stage = "IDLE"
  /\ body = <<>>
  /\ returned = <<>>
  /\ NothingLoaded
  /\ disable_rpc_request_validation = FALSE

\* the engine accepts n transactions and closes a block over them
AddBlock ==
  /\ stage = "IDLE"
  /\ Len(blocks) < MaxBlocks
  /\ \E n \in 0..MaxTxPerBlock : blocks' = Append(blocks, NewBlock(blocks, n))
  /\ UNCHANGED <<origin_raises, stage, body, returned>>
  /\ UNCHANGED schema_state

\* POST /rpc with body request_json
base_route(request_json) ==
  /\ body' = request_json
  /\ returned' = Respond(request_json)
  /\ stage' = StageOf(returned')
  /\ UNCHANGED <<blocks, origin_raises>>
  /\ UNCHANGED schema_state

\* the requests sent: every method string with every id and argument list,
\* and the malformed bodies
Post ==
  /\ stage = "IDLE"
  /\ \E well_formed \in BOOLEAN :
       \E method \in IF well_formed THEN MethodStrings ELSE {foo}, id \in Ids :
         \E params \in ParamsOf(method) :
           \E request_json \in IF well_formed
                                THEN {Request(method, params, id)}
                                ELSE Malformed(id) :
             base_route(request_json)

\* the HTTP exchange ends
Close ==
  /\ stage \in {"RESPONDED", "ERROR_RESPONDED", "FAILED"}
  /\ stage' = "IDLE"
  /\ body' = <<>>
  /\ returned' = <<>>
  /\ UNCHANGED <<blocks, origin_raises>>
  /\ UNCHANGED schema_state

Next == AddBlock \/ Post \/ Close

Spec == Init /\ [][Next]_vars

(***************************************************************************)
(* The codec on its own: rpc_felt and rpc_root applied to every value of   *)
(* a bounded range.  body holds the argument under the parameter's name,   *)
(* returned the string the function returned.                              *)
(***************************************************************************)
RECURSIVE StringsOfLength(_)
StringsOfLength(n) ==
  IF n = 0 THEN {<<>>}
  ELSE {<<c>> \o t : c \in CharsOf(HexChars), t \in StringsOfLength(n - 1)}

\* the hex strings of one to MaxRootLen characters
RootStrings == UNION {StringsOfLength(n) : n \in 1..MaxRootLen}

\* no function has been called yet
NothingCalled ==
  /\ blocks = <<>>
  /\ origin_raises = FALSE
  /\ stage = "IDLE"
  /\ body = <<>>
  /\ returned = <<>>
  /\ NothingLoaded
  /\ disable_rpc_request_validation = FALSE

EncodeFelt ==
  /\ stage = "IDLE"
  /\ \E value \in 0..MaxFelt :
       /\ body' = [value |-> value]
       /\ returned' = rpc_felt(value)
  /\ stage' = "FELT"
  /\ UNCHANGED <<blocks, origin_raises>>
  /\ UNCHANGED schema_state

EncodeRoot ==
  /\ stage = "IDLE"
  /\ \E root \in RootStrings :
       /\ body' = [root |-> root]
       /\ returned' = rpc_root(root)
  /\ stage' = "ROOT"
  /\ UNCHANGED <<blocks, origin_raises>>
  /\ UNCHANGED schema_state

\* the caller drops what the call returned
Discard ==
  /\ stage \notin {"IDLE", "VALIDATED", "HANDLED"}
  /\ stage' = "IDLE"
  /\ body' = <<>>
  /\ returned' = <<>>
  /\ UNCHANGED <<blocks, origin_raises>>
  /\ UNCHANGED schema_state

CodecNext == EncodeFelt \/ EncodeRoot \/ Discard

CodecSpec == NothingCalled /\ [][CodecNext]_vars

(***************************************************************************)
(* The wrapper of validate_schema on its own: one call at a time, over the *)
(* requests above.  body holds the method name the decorator was given and *)
(* the params of the call, returned what the wrapper holds or raised.      *)
(***************************************************************************)
SchemaStageOf(outcome) ==
  IF outcome.ok THEN "VALIDATED"
  ELSE IF outcome.exc = "ParamsValidationErrorWrapper" THEN "REJECTED"
  ELSE "FAILED"

\* the devnet is started with or without --disable-rpc-request-validation
SchemaStarted ==
  /\ blocks = <<>>
  /\ origin_raises = FALSE
  /\ stage = "IDLE"
  /\ body = <<>>
  /\ returned = <<>>
  /\ NothingLoaded
  /\ disable_rpc_request_validation \in BOOLEAN

\* the wrapper up to the call of func; _request_schemas_for_method calls
\* _load_schemas, which builds the registry when the cache is empty
ValidateRequest ==
  /\ stage = "IDLE"
  /\ \E method_name \in DecoratedNames :
       \E params \in SchemaParams(method_name) :
         /\ body' = [method |-> method_name, params |-> params]
         /\ returned' = validate_schema(method_name, params)
  /\ stage' = SchemaStageOf(returned')
  /\ registries' = IF cache = <<>>
                   THEN Append(registries, _load_schemas(documents.read, documents.write))
                   ELSE registries
  /\ cache' = IF cache = <<>> THEN <<Len(registries')>> ELSE cache
  /\ UNCHANGED <<blocks, origin_raises, documents, disable_rpc_request_validation>>

\* what the decorated function hands back: an object, or a domain error
FuncOutcomes ==
  {Return([result |-> "0x01"]),
   Return([result |-> "0x01", extra |-> "0x01"]),
   Return([block_number |-> "12345"]),
   RpcError(20, "Contract not found")}

\* result = await func(*args, **kwargs)
CallFunc ==
  /\ stage = "VALIDATED"
  /\ \E outcome \in FuncOutcomes : returned' = outcome
  /\ stage' = IF returned'.ok THEN "HANDLED" ELSE "RAISED"
  /\ UNCHANGED <<blocks, origin_raises, body>>
  /\ UNCHANGED schema_state

WrappedResponse(result, outcome) ==
  IF outcome.ok THEN result
  ELSE IF outcome.exc = "ValidationError" THEN ResponseValidationErrorWrapper(outcome)
  ELSE outcome

\* the wrapper after func returned: the response is checked and handed back
ValidateResponse ==
  /\ stage = "HANDLED"
  /\ returned' = WrappedResponse(
                    returned,
                    assert_valid_rpc_schema(registries[cache[1]], returned.value,
                                            body.method))
  /\ registries' = [registries EXCEPT
                      ![cache[1]] = resolved(@, _construct_method_name(body.method))]
  /\ stage' = IF returned'.ok THEN "RETURNED" ELSE "RESPONSE_REJECTED"
  /\ UNCHANGED <<blocks, origin_raises, body, documents, cache,
                 disable_rpc_request_validation>>

SchemaNext == ValidateRequest \/ CallFunc \/ ValidateResponse \/ Discard

SchemaSpec == SchemaStarted /\ [][SchemaNext]_vars

(***************************************************************************)
(* The loader on its own: MaxThreads callers of _load_schemas, each at its *)
(* place in the lru_cache wrapper.  stage holds the place of every caller  *)
(* and returned the registry it was handed.                                *)
(***************************************************************************)
MaxThreads == 2

Threads == 1..MaxThreads

RegistryStarted ==
  /\ blocks = <<>>
  /\ origin_raises = FALSE
  /\ stage = [t \in Threads |-> "IDLE"]
  /\ body = <<>>
  /\ returned = [t \in Threads |-> <<>>]
  /\ documents \in DocumentPairs
  /\ registries = <<>>
  /\ cache = <<>>
  /\ disable_rpc_request_validation = FALSE

\* the wrapper looks the call up: a hit hands the cached registry back
Lookup(t) ==
  /\ stage[t] = "IDLE"
  /\ stage' = [stage EXCEPT ![t] = IF cache = <<>> THEN "MISSED" ELSE "RETURNED"]
  /\ returned' = [returned EXCEPT ![t] = cache]
  /\ UNCHANGED <<blocks, origin_raises, body>>
  /\ UNCHANGED schema_state

\* after a miss the body of _load_schemas runs, outside the wrapper's lock
RunBody(t) ==
  /\ stage[t] = "MISSED"
  /\ registries' = Append(registries, _load_schemas(documents.read, documents.write))
  /\ returned' = [returned EXCEPT ![t] = <<Len(registries')>>]
  /\ stage' = [stage EXCEPT ![t] = "BUILT"]
  /\ UNCHANGED <<blocks, origin_raises, body, documents, cache,
                 disable_rpc_request_validation>>

\* back in the wrapper: the result is kept unless the key was stored meanwhile
Store(t) ==
  /\ stage[t] = "BUILT"
  /\ cache' = IF cache = <<>> THEN returned[t] ELSE cache
  /\ stage' = [stage EXCEPT ![t] = "RETURNED"]
  /\ UNCHANGED <<blocks, origin_raises, body, returned, documents, registries,
                 disable_rpc_request_validation>>

\* the caller lets go of the registry
Release(t) ==
  /\ stage[t] = "RETURNED"
  /\ stage' = [stage EXCEPT ![t] = "IDLE"]
  /\ returned' = [returned EXCEPT ![t] = <<>>]
  /\ UNCHANGED <<blocks, origin_raises, body>>
  /\ UNCHANGED schema_state

RegistryNext ==
  \E t \in Threads : Lookup(t) \/ RunBody(t) \/ Store(t) \/ Release(t)

RegistrySpec == RegistryStarted /\ [][RegistryNext]_vars

(***************************************************************************)
(* Properties.  A finished exchange keeps the request in body and what the *)
(* client got in returned, next to the chain the request was served from.  *)
(***************************************************************************)
Finished == stage \in {"RESPONDED", "ERROR_RESPONDED", "FAILED"}

WellFormed == Finished /\ {"method", "params", "id"} \subseteq DOMAIN body

\* the method name a request asks for: its method without the namespace
\* prefix, when it has one
Asked ==
  IF HasPrefix(body.method, starknet_)
  THEN SubSeq(body.method, Len(starknet_) + 1, Len(body.method))
  ELSE body.method

\* the request names the method of this handler and its params fit the
\* handler's parameters
AsksFor(handler) ==
  /\ WellFormed
  /\ Asked \in MethodNames
  /\ HandlerOf(Asked) = handler
  /\ Bind(Signature(handler), body.params).ok

ArgsOf(handler) == Bind(Signature(handler), body.params).value

IsResultEnvelope == "result" \in DOMAIN returned

IsErrorEnvelope(code) ==
  /\ "error" \in DOMAIN returned
  /\ "result" \notin DOMAIN returned
  /\ returned.error.code = code

HashOfBlock(block_hash) ==
  /\ IsHexString(block_hash)
  /\ \E b \in DOMAIN blocks : blocks[b].block_hash = int16(block_hash)

BlockOfHash(block_hash) ==
  blocks[CHOOSE b \in DOMAIN blocks : blocks[b].block_hash = int16(block_hash)]

HashOfTransaction(transaction_hash) ==
  /\ IsHexString(transaction_hash)
  /\ \E b \in DOMAIN blocks : \E i \in DOMAIN blocks[b].transactions :
       blocks[b].transactions[i].transaction_hash = int16(transaction_hash)

Deployed(contract_address) ==
  /\ IsHexString(contract_address)
  /\ \E b \in DOMAIN blocks : \E i \in DOMAIN blocks[b].transactions :
       /\ blocks[b].transactions[i].tx_type = "DEPLOY"
       /\ blocks[b].transactions[i].contract_address = int16(contract_address)

\* C1: a request whose method name, without the namespace prefix, is not in
\* the method table is answered with an error envelope of code -1, whatever
\* its params and id.
C1_UnregisteredMethodGetsMinusOne ==
  (WellFormed /\ Asked \notin MethodNames) => IsErrorEnvelope(-1)

\* C1, what the program does: the request gets no envelope at all, the
\* RpcError of parse_body leaves base_route
C1_UnregisteredMethodGetsNoEnvelope ==
  /\ WellFormed
  /\ body.method = starknet_ \o foo
  /\ returned = Unhandled("RpcError")

MethodNotFound ==
  \/ "exception" \in DOMAIN returned /\ returned.exception = "RpcError"
  \/ /\ "error" \in DOMAIN returned
     /\ returned.error.code = -1
     /\ returned.error.message = "Method not found"

\* C2: for each of the 22 entries m of the method table, a request whose
\* method is 'starknet_' + m resolves to the handler of m and is never
\* answered 'Method not found'.
C2_RegisteredMethodsResolve ==
  \A i \in DOMAIN methods :
    (WellFormed /\ body.method = starknet_ \o methods[i].name)
      => /\ parse_body(body).ok
         /\ parse_body(body).value.method = methods[i].handler
         /\ ~MethodNotFound

\* C2, what the program does: starknet_syncing loses the s of syncing with
\* its prefix and is not found
C2_SyncingIsNotFound ==
  /\ WellFormed
  /\ body.method = starknet_ \o <<"s", "y", "n", "c", "i", "n", "g">>
  /\ StripNamespace(body.method) = <<"y", "n", "c", "i", "n", "g">>
  /\ MethodNotFound

\* C3: every received request ends in RESPONDED, with a result envelope, or
\* in ERROR-RESPONDED, with an error envelope; no failure at any stage
\* leaves the request without a JSON-RPC envelope.
C3_EveryRequestGetsAnEnvelope ==
  Finished => /\ stage \in {"RESPONDED", "ERROR_RESPONDED"}
              /\ "jsonrpc" \in DOMAIN returned
              /\ stage = "RESPONDED" => IsResultEnvelope
              /\ stage = "ERROR_RESPONDED" => "error" \in DOMAIN returned

\* C3, what the program does: the TypeError of a call whose arguments do not
\* fit the handler leaves base_route
C3_BindingFailureGetsNoEnvelope ==
  /\ WellFormed
  /\ Asked \in MethodNames
  /\ ~Bind(Signature(HandlerOf(Asked)), body.params).ok
  /\ stage = "FAILED"
  /\ returned = Unhandled("TypeError")

ByHashHandlers ==
  {"get_block_by_hash", "get_state_update_by_hash",
   "get_transaction_by_block_hash_and_index",
   "get_block_transaction_count_by_hash"}

ByNumberHandlers ==
  {"get_block_by_number", "get_transaction_by_block_number_and_index",
   "get_block_transaction_count_by_number"}

\* C4: in any chain state, a handler that looks a block up by hash answers
\* with code 24 when no block has that hash, and a handler that looks a block
\* up by number answers with code 26 when no block has that number.
C4_MissingBlockCodes ==
  /\ \A handler \in ByHashHandlers :
       (AsksFor(handler) /\ ~HashOfBlock(ArgsOf(handler).block_hash))
         => IsErrorEnvelope(24)
  /\ \A handler \in ByNumberHandlers :
       (AsksFor(handler) /\ ArgsOf(handler).block_number \notin 0..(Len(blocks) - 1))
         => IsErrorEnvelope(26)

C4_MissingNumberOnAChain ==
  /\ AsksFor("get_block_transaction_count_by_number")
  /\ Len(blocks) > 0
  /\ ArgsOf("get_block_transaction_count_by_number").block_number >= Len(blocks)
  /\ IsErrorEnvelope(26)

TransactionHandlers == {"get_transaction_by_hash", "get_transaction_receipt"}

\* C5: getTransactionByHash and getTransactionReceipt answer with code 25
\* and no result whenever the chain holds no transaction of the given hash,
\* both when the engine fails the lookup and when it reports NOT_RECEIVED.
C5_MissingTransactionCode ==
  \A handler \in TransactionHandlers :
    (AsksFor(handler) /\ ~HashOfTransaction(ArgsOf(handler).transaction_hash))
      => IsErrorEnvelope(25)

C5_NotReceivedOnAChain ==
  /\ AsksFor("get_transaction_by_hash")
  /\ ~origin_raises
  /\ ChainTransactions # {}
  /\ ~HashOfTransaction(ArgsOf("get_transaction_by_hash").transaction_hash)
  /\ IsErrorEnvelope(25)

\* getTransactionBy...AndIndex on a block, as C6 has it
IndexAnswer(block, index) ==
  IF index \in 0..(Len(block.transactions) - 1)
  THEN /\ IsResultEnvelope
       /\ returned.result = rpc_transaction(block.transactions[index + 1])
  ELSE IsErrorEnvelope(27)

\* C6: for an existing block with n transactions, the two ...AndIndex
\* methods answer with code 27 for every index that is not a position 0..n-1
\* of the block's transaction list, and with the transaction at that
\* position otherwise.
C6_IndexOutsideBlockGets27 ==
  /\ (/\ AsksFor("get_transaction_by_block_hash_and_index")
      /\ HashOfBlock(ArgsOf("get_transaction_by_block_hash_and_index").block_hash))
       => IndexAnswer(
            BlockOfHash(ArgsOf("get_transaction_by_block_hash_and_index").block_hash),
            ArgsOf("get_transaction_by_block_hash_and_index").index)
  /\ (/\ AsksFor("get_transaction_by_block_number_and_index")
      /\ ArgsOf("get_transaction_by_block_number_and_index").block_number
           \in 0..(Len(blocks) - 1))
       => IndexAnswer(
            blocks[ArgsOf("get_transaction_by_block_number_and_index").block_number + 1],
            ArgsOf("get_transaction_by_block_number_and_index").index)

\* C6, what the program does: index -1 is answered with the last transaction
\* of the block
C6_NegativeIndexGetsLastTransaction ==
  /\ AsksFor("get_transaction_by_block_number_and_index")
  /\ ArgsOf("get_transaction_by_block_number_and_index").block_number = 0
  /\ ArgsOf("get_transaction_by_block_number_and_index").index = -1
  /\ Len(blocks) > 0
  /\ Len(blocks[1].transactions) > 0
  /\ IsResultEnvelope
  /\ returned.result =
       rpc_transaction(blocks[1].transactions[Len(blocks[1].transactions)])

\* C7: getStorageAt, call and getCode answer with code 20 whenever the given
\* address has no deployed contract; getStorageAt also when the request
\* names the hash of an existing block.  call is held to it under the block
\* hash 'latest' only.
C7_UndeployedContractGets20 ==
  /\ (/\ AsksFor("get_storage_at")
      /\ \/ ArgsOf("get_storage_at").block_hash = latest
         \/ HashOfBlock(ArgsOf("get_storage_at").block_hash)
      /\ ~Deployed(ArgsOf("get_storage_at").contract_address))
       => IsErrorEnvelope(20)
  /\ (/\ AsksFor("call")
      /\ ArgsOf("call").block_hash = latest
      /\ ~Deployed(ArgsOf("call").contract_address))
       => IsErrorEnvelope(20)
  /\ (AsksFor("get_code") /\ ~Deployed(ArgsOf("get_code").contract_address))
       => IsErrorEnvelope(20)

\* C7, what the program does: under the hash of an existing block
\* getStorageAt answers with code -1 before it looks at the contract
C7_ExistingBlockHashGetsMinusOne ==
  /\ AsksFor("get_storage_at")
  /\ HashOfBlock(ArgsOf("get_storage_at").block_hash)
  /\ ~Deployed(ArgsOf("get_storage_at").contract_address)
  /\ IsErrorEnvelope(-1)

\* C8: getStorageAt for a deployed contract and a block hash that no block
\* of the chain has answers with code 24.
C8_AbsentBlockHashGets24 ==
  (/\ AsksFor("get_storage_at")
   /\ Deployed(ArgsOf("get_storage_at").contract_address)
   /\ ArgsOf("get_storage_at").block_hash # latest
   /\ ~HashOfBlock(ArgsOf("get_storage_at").block_hash))
    => IsErrorEnvelope(24)

\* C8, what the program does: the answer is code -1
C8_AbsentBlockHashGetsMinusOne ==
  /\ AsksFor("get_storage_at")
  /\ Deployed(ArgsOf("get_storage_at").contract_address)
  /\ ArgsOf("get_storage_at").block_hash # latest
  /\ ~HashOfBlock(ArgsOf("get_storage_at").block_hash)
  /\ IsErrorEnvelope(-1)

Unimplemented == {"pending_transactions", "syncing", "get_events", "estimate_fee"}

\* C9: each method of the table that has no implementation
\* (pendingTransactions, syncing, getEvents, estimateFee) is answered with an
\* error envelope of code -2, never with a result.
C9_UnimplementedGetsMinusTwo ==
  \A handler \in Unimplemented : AsksFor(handler) => IsErrorEnvelope(-2)

\* C9, what the program does: estimateFee is not answered with code -2; its
\* name does not survive the prefix strip, and its handler returns None
C9_EstimateFeeIsNotMinusTwo ==
  /\ AsksFor("estimate_fee")
  /\ ~IsErrorEnvelope(-2)
  /\ Invoke("estimate_fee", ArgsOf("estimate_fee")) = Return(None)

Mapped == {"RpcError", "NotImplementedError"}

\* C10: every envelope the dispatcher emits has exactly one of the keys
\* 'result' and 'error': only 'result' when the handler returned, only
\* 'error', with an integer code and a message, when the handler raised a
\* mapped error.
C10_ResultXorError ==
  /\ (Finished /\ "jsonrpc" \in DOMAIN returned)
       => /\ ("result" \in DOMAIN returned) # ("error" \in DOMAIN returned)
          /\ "error" \in DOMAIN returned
               => /\ DOMAIN returned.error = {"code", "message"}
                  /\ returned.error.code \in Int
                  /\ returned.error.message \in STRING
  /\ \A i \in DOMAIN methods :
       (AsksFor(methods[i].handler) /\ parse_body(body).ok)
         => IF Invoke(methods[i].handler, ArgsOf(methods[i].handler)).ok
            THEN DOMAIN returned = {"jsonrpc", "id", "result"}
            ELSE Invoke(methods[i].handler, ArgsOf(methods[i].handler)).exc \in Mapped
                   => DOMAIN returned = {"jsonrpc", "id", "error"}

C10_BothKindsOfEnvelope ==
  /\ AsksFor("get_block_by_number")
  /\ parse_body(body).ok
  /\ Len(blocks) > 0
  /\ ~Invoke("get_block_by_number", ArgsOf("get_block_by_number")).ok
  /\ Invoke("get_block_by_number", ArgsOf("get_block_by_number")).exc = "RpcError"
  /\ DOMAIN returned = {"jsonrpc", "id", "error"}
  /\ returned.error.code = 26

BlockHandlers == {"get_block_by_hash", "get_block_by_number"}

\* the root of RootBytes zero bytes on the wire
ZeroRoot == <<"0", "x">> \o [i \in 1..(2 * RootBytes) |-> "0"]

\* the wire form of the block with this number
WireBlock(block_number) ==
  rpc_block(blocks_get_by_number(block_number).value, "TXN_HASH").value

AnsweredBlock == blocks_get_by_number(returned.result.block_number).value

\* a block request with this scope got a block
BlockAnswered(requested_scope) ==
  \E handler \in BlockHandlers :
    /\ AsksFor(handler)
    /\ IsResultEnvelope
    /\ ArgsOf(handler).requested_scope = requested_scope

\* the receipt DTO of a transaction DTO
ReceiptDTO(transaction) ==
  get_transaction_receipt([transaction_hash |-> transaction.txn_hash]).value

\* the entry holds every key of both DTOs, the receipt's value under the
\* receipt's keys and the transaction's under the others
MergedEntry(entry, transaction, receipt) ==
  /\ DOMAIN entry = DOMAIN transaction \cup DOMAIN receipt
  /\ "actual_fee" \in DOMAIN entry
  /\ \A key \in DOMAIN receipt : entry[key] = receipt[key]
  /\ \A key \in DOMAIN transaction \ DOMAIN receipt : entry[key] = transaction[key]

\* C12: with scope FULL_TXN_AND_RECEIPTS every entry of the block's
\* transactions holds every field of the transaction DTO and every field of
\* its receipt DTO, actual_fee included, and under a key that both DTOs have
\* it holds the receipt's value.
C12_EntriesMergeTransactionAndReceipt ==
  BlockAnswered("FULL_TXN_AND_RECEIPTS")
    => \A i \in DOMAIN returned.result.transactions :
         MergedEntry(returned.result.transactions[i],
                     rpc_transaction(AnsweredBlock.transactions[i]),
                     ReceiptDTO(rpc_transaction(AnsweredBlock.transactions[i])))

C12_MergedEntryAnswered ==
  /\ BlockAnswered("FULL_TXN_AND_RECEIPTS")
  /\ Len(AnsweredBlock.transactions) = MaxTxPerBlock
  /\ Len(returned.result.transactions) = MaxTxPerBlock
  /\ {"txn_hash", "max_fee", "actual_fee", "status"}
        \subseteq DOMAIN returned.result.transactions[1]
  /\ "txn_hash" \in DOMAIN rpc_transaction(AnsweredBlock.transactions[1])
                      \cap DOMAIN ReceiptDTO(rpc_transaction(AnsweredBlock.transactions[1]))

\* the transaction hash an entry of a wire block's transactions carries
EntryHash(entry, requested_scope) ==
  IF requested_scope = "TXN_HASH" THEN entry ELSE entry.txn_hash

\* C13: for every BlockScope the transactions of the wire block are as many
\* as the block's transactions and the i-th entry is derived from the
\* block's i-th transaction: the output keeps the original order.
C13_EntriesKeepTransactionOrder ==
  \A requested_scope \in BlockScopes :
    BlockAnswered(requested_scope)
      => /\ Len(returned.result.transactions) = Len(AnsweredBlock.transactions)
         /\ \A i \in DOMAIN returned.result.transactions :
              EntryHash(returned.result.transactions[i], requested_scope)
                = rpc_felt(AnsweredBlock.transactions[i].transaction_hash)

C13_TwoReceiptsInOrder ==
  /\ BlockAnswered("FULL_TXN_AND_RECEIPTS")
  /\ Len(returned.result.transactions) = 2
  /\ returned.result.transactions[1].txn_hash
       = rpc_felt(AnsweredBlock.transactions[1].transaction_hash)
  /\ returned.result.transactions[1].txn_hash
       # returned.result.transactions[2].txn_hash

\* the string is the encoding of the number it denotes
IsEncodedFelt(string) == IsHexString(string) /\ string = rpc_felt(int16(string))

\* the wire transaction is the translation the claim describes
Translated(wire, transaction) ==
  /\ "max_fee" \in DOMAIN wire
  /\ IsEncodedFelt(wire.max_fee)
  /\ IF transaction.tx_type = "DEPLOY"
     THEN /\ wire.entry_point_selector = None
          /\ wire.calldata = IF transaction.constructor_calldata = <<>> THEN None
                             ELSE FeltList(transaction.constructor_calldata)
     ELSE /\ wire.entry_point_selector = rpc_felt(transaction.entry_point_selector)
          /\ wire.calldata = FeltList(transaction.calldata)

\* C14: the translation of a deploy transaction has no entry-point selector
\* and the encoded constructor calldata as its calldata, none when the
\* constructor calldata is empty; the translation of an invoke transaction
\* has its encoded entry-point selector and its encoded calldata; both have
\* a max_fee that is an encoded felt.
C14_TransactionsTranslateByKind ==
  /\ BlockAnswered("FULL_TXNS")
       => \A i \in DOMAIN returned.result.transactions :
            Translated(returned.result.transactions[i], AnsweredBlock.transactions[i])
  /\ (AsksFor("get_transaction_by_hash") /\ IsResultEnvelope)
       => Translated(returned.result,
                     TransactionByHash(ArgsOf("get_transaction_by_hash").transaction_hash))

C14_DeployWithConstructorCalldata ==
  /\ BlockAnswered("FULL_TXNS")
  /\ \E i \in DOMAIN returned.result.transactions :
       /\ AnsweredBlock.transactions[i].tx_type = "DEPLOY"
       /\ AnsweredBlock.transactions[i].constructor_calldata # <<>>
       /\ returned.result.transactions[i].calldata
            = FeltList(AnsweredBlock.transactions[i].constructor_calldata)
       /\ returned.result.transactions[i].max_fee = rpc_felt(0)
  /\ \E j \in DOMAIN returned.result.transactions :
       /\ AnsweredBlock.transactions[j].tx_type = "INVOKE_FUNCTION"
       /\ returned.result.transactions[j].entry_point_selector
            = rpc_felt(AnsweredBlock.transactions[j].entry_point_selector)

\* C15: for every non-negative integer v, rpc_felt(v) is the two-character
\* marker 0x followed by exactly the canonical hexadecimal digits of v.
C15_FeltIsMarkerAndDigits ==
  stage = "FELT" => returned = <<"0", "x">> \o HexDigits(body.value)

\* C15, as the code has it: rpc_felt(v) is the three-character marker 0x0
\* followed by the canonical hexadecimal digits of v when v > 0, and the
\* marker alone when v = 0.
C15_FeltIsPaddedMarkerAndDigits ==
  stage = "FELT"
    => returned = <<"0", "x", "0">>
                    \o (IF body.value = 0 THEN <<>> ELSE HexDigits(body.value))

C15_TwoDigitFeltEncoded ==
  /\ stage = "FELT"
  /\ body.value = 255
  /\ returned = <<"0", "x", "0", "f", "f">>

\* C16: rpc_felt is injective over 0..MaxFelt, no other value encodes to the
\* string a value encodes to, and rpc_felt(0) is the string 0x0.
C16_FeltIsInjective ==
  stage = "FELT"
    => /\ \A other \in 0..MaxFelt : rpc_felt(other) = returned => other = body.value
       /\ body.value = 0 => returned = <<"0", "x", "0">>

C16_ZeroEncoded ==
  /\ stage = "FELT"
  /\ body.value = 0
  /\ returned = <<"0", "x", "0">>
  /\ rpc_felt(16) # returned

\* C17: for every hex string h of one character or more, rpc_root(h) is the
\* two-character marker 0x followed by h without its first character, one
\* character longer than h.
C17_RootIsMarkerAndTail ==
  stage = "ROOT"
    => /\ returned = <<"0", "x">> \o Tail(body.root)
       /\ Len(returned) = Len(body.root) + 1

\* C17, as the code has it: rpc_root(h) is the three-character marker 0x0
\* followed by h without its first character, two characters longer than h.
C17_RootIsPaddedMarkerAndTail ==
  stage = "ROOT"
    => /\ returned = <<"0", "x", "0">> \o Tail(body.root)
       /\ Len(returned) = Len(body.root) + 2

C17_TwoCharacterRootEncoded ==
  /\ stage = "ROOT"
  /\ body.root = <<"a", "b">>
  /\ returned = <<"0", "x", "0", "b">>

\* a request handed to validation with array params, with object params
Positional == stage \in {"VALIDATED", "REJECTED", "FAILED"} /\ "list" \in DOMAIN body.params

Keyed == stage \in {"VALIDATED", "REJECTED", "FAILED"} /\ "dict" \in DOMAIN body.params

\* the parameter schemas of the method a validated request names
SchemasOf(method_name) ==
  _request_schemas_for_method(_construct_method_name(method_name)).value

Registered(method_name) == _construct_method_name(method_name) \in RegisteredNames

\* the values of an argument list under the names of the parameters they are
\* given for by position
ByName(schemas, args) ==
  [name \in {schemas[i].name : i \in 1..Len(args)} |->
     args[CHOOSE i \in 1..Len(args) : schemas[i].name = name]]

\* the parameter each validated value was checked against
BoundBy(schemas, params) ==
  IF "list" \in DOMAIN params
  THEN {<<schemas[i].name, params.list[i]>> : i \in 1..Len(params.list)}
  ELSE {<<name, params.dict[name]>> : name \in DOMAIN params.dict}

\* C18: for every method and every list of values, validation of the values
\* passed by position accepts exactly when validation of the same values
\* passed by parameter name accepts, and both bind each value to the same
\* parameter.
C18_PositionalAcceptsIffKeyedAccepts ==
  (Positional /\ Registered(body.method)
     /\ Len(body.params.list) <= Len(SchemasOf(body.method)))
    => /\ returned.ok
            = validate_schema(body.method,
                 [dict |-> ByName(SchemasOf(body.method), body.params.list)]).ok
       /\ BoundBy(SchemasOf(body.method), body.params)
            = BoundBy(SchemasOf(body.method),
                      [dict |-> ByName(SchemasOf(body.method), body.params.list)])

C18_MissingRejectedByPositionOnly ==
  /\ Positional
  /\ body.method = <<"t", "e", "x", "t">>
  /\ body.params.list = <<"missing">>
  /\ stage = "REJECTED"
  /\ validate_schema(body.method, [dict |-> ByName(SchemasOf(body.method), body.params.list)]).ok

\* what makes object params invalid
UnknownKey(schemas, kwargs) ==
  \E key \in DOMAIN kwargs : \A i \in DOMAIN schemas : schemas[i].name # key

RequiredKeyMissing(schemas, kwargs) ==
  \E i \in DOMAIN schemas : schemas[i].is_required /\ schemas[i].name \notin DOMAIN kwargs

NamedValueFails(schemas, kwargs) ==
  \E i \in DOMAIN schemas :
    /\ schemas[i].name \in DOMAIN kwargs
    /\ ~Conforms(kwargs[schemas[i].name], schemas[i].schema)

ValueFailsAtPosition(schemas, args) ==
  \E i \in DOMAIN schemas :
    i <= Len(args) /\ ~Conforms(args[i], schemas[i].schema)

\* C20: array params are rejected with a params-validation failure whenever
\* they hold more values than the method has parameters, fewer values than
\* parameters, the empty array included, or a value that fails the schema of
\* the parameter at its position.
C20_InvalidPositionalParamsRejected ==
  (Positional /\ Registered(body.method)
     /\ \/ Len(body.params.list) > Len(SchemasOf(body.method))
        \/ Len(body.params.list) < Len(SchemasOf(body.method))
        \/ ValueFailsAtPosition(SchemasOf(body.method), body.params.list))
    => stage = "REJECTED" /\ returned.exc = "ParamsValidationErrorWrapper"

C20_EmptyArrayRejected ==
  /\ Positional
  /\ body.method = <<"c", "a", "l", "l">>
  /\ body.params.list = <<>>
  /\ stage = "REJECTED"
  /\ returned.exc = "ParamsValidationErrorWrapper"

\* C21: object params that hold a valid value for every required parameter
\* and leave out a parameter marked not required are accepted.
C21_OptionalParameterMayBeOmitted ==
  (Keyed /\ Registered(body.method)
     /\ ~UnknownKey(SchemasOf(body.method), body.params.dict)
     /\ ~RequiredKeyMissing(SchemasOf(body.method), body.params.dict)
     /\ ~NamedValueFails(SchemasOf(body.method), body.params.dict)
     /\ \E i \in DOMAIN SchemasOf(body.method) :
          /\ ~SchemasOf(body.method)[i].is_required
          /\ SchemasOf(body.method)[i].name \notin DOMAIN body.params.dict)
    => stage = "VALIDATED"

C21_OmittedOptionalRejected ==
  /\ Keyed
  /\ body.method = starknet_ \o <<"m", "e", "t", "h", "o", "d">>
  /\ DOMAIN body.params.dict = {"key"}
  /\ body.params.dict["key"] = "0x01"
  /\ stage = "REJECTED"
  /\ returned.message = <<"Missing kwarg for ", "value", ".">>

\* C30: array params with exactly one value for each declared parameter,
\* each value satisfying the schema of its parameter, are accepted whatever
\* the values are, and a Missing arg failure is raised only when fewer
\* values than parameters were supplied.
C30_CompleteValidArgsAccepted ==
  (Positional /\ Registered(body.method))
    => /\ (/\ Len(body.params.list) = Len(SchemasOf(body.method))
           /\ ~ValueFailsAtPosition(SchemasOf(body.method), body.params.list))
            => stage = "VALIDATED"
       /\ (stage = "REJECTED" /\ Head(returned.message) = "Missing arg for ")
            => Len(body.params.list) < Len(SchemasOf(body.method))

C30_SuppliedValueReportedMissing ==
  /\ Positional
  /\ Registered(body.method)
  /\ Len(body.params.list) = Len(SchemasOf(body.method))
  /\ ~ValueFailsAtPosition(SchemasOf(body.method), body.params.list)
  /\ stage = "REJECTED"
  /\ returned.message = <<"Missing arg for ", "text", ".">>

\* C29: a request reaches the handler registered under the name m only if
\* its method string is m or starknet_ followed by m.
C29_ResolutionIsExact ==
  \A i \in DOMAIN methods :
    (WellFormed /\ parse_body(body).ok
       /\ parse_body(body).value.method = methods[i].handler)
      => body.method \in {methods[i].name, starknet_ \o methods[i].name}

C29_PaddedNameReachesChainId ==
  /\ WellFormed
  /\ body.method = <<"t", "a", "r">> \o <<"c", "h", "a", "i", "n", "I", "d">>
  /\ body.params = [list |-> <<>>]
  /\ stage = "RESPONDED"
  /\ returned.result = chain_id(<<>>).value

\* the request validation of the open call raises nothing
RequestValid ==
  IF "list" \in DOMAIN body.params
  THEN assert_valid_rpc_request(body.params.list, <<>>, body.method).ok
  ELSE assert_valid_rpc_request(<<>>, body.params.dict, body.method).ok

\* func has been entered for the open call
FuncEntered == stage \in {"HANDLED", "RAISED", "RETURNED", "RESPONSE_REJECTED"}

\* C22: a call whose arguments fail request validation never enters the
\* decorated function and ends with ParamsValidationErrorWrapper, which is no
\* RpcError and carries no error code; func is entered only from the state
\* the successful request validation leaves.
C22_HandlerRunsOnlyAfterValidation ==
  /\ []((stage = "VALIDATED" \/ FuncEntered) => RequestValid)
  /\ [](stage = "REJECTED" =>
          /\ ~RequestValid
          /\ returned.exc = "ParamsValidationErrorWrapper"
          /\ "code" \notin DOMAIN returned)
  /\ [][(stage' \in {"HANDLED", "RAISED"} /\ stage' # stage) => stage = "VALIDATED"]_vars
  /\ [][(stage = "REJECTED" \/ stage = "FAILED") => stage' = "IDLE"]_vars

\* an ill-typed request was rejected before func
C22_IllTypedRequestRejected ==
  /\ stage = "REJECTED"
  /\ body = [method |-> <<"c", "a", "l", "l">>,
             params |-> [list |-> <<"12345", "latest">>]]
  /\ returned.exc = "ParamsValidationErrorWrapper"

\* C23: with --disable-rpc-request-validation an invalid request is not
\* rejected by the request validation: it reaches the decorated function.
C23_DisabledValidationPassesThrough ==
  (disable_rpc_request_validation /\ stage \in {"VALIDATED", "REJECTED"})
    => stage = "VALIDATED"

\* the request of test_schema_does_not_raise_on_disabled_request_validation,
\* rejected with validation disabled
C23_RejectedWithValidationDisabled ==
  /\ disable_rpc_request_validation
  /\ stage = "REJECTED"
  /\ body = [method |-> <<"c", "a", "l", "l">>,
             params |-> [dict |-> [block_id |-> "latest",
                                   request |-> "{call without contract_address}"]]]
  /\ returned.exc = "ParamsValidationErrorWrapper"

\* C25: a call of the validation functions leaves the cached registry as it
\* was built.
C25_CachedRegistryIsNeverWritten ==
  [][(cache # <<>> /\ cache' = cache) => registries'[cache[1]] = registries[cache[1]]]_vars

\* the cached result schema of starknet_call after a response was validated
C25_ResultSchemaWritten ==
  /\ stage = "RETURNED"
  /\ body.method = <<"c", "a", "l", "l">>
  /\ "additionalProperties" \in DOMAIN
        base_schema(registries[cache[1]], starknet_ \o <<"c", "a", "l", "l">>)
  /\ "additionalProperties" \notin DOMAIN
        base_schema(_load_schemas(documents.read, documents.write),
                    starknet_ \o <<"c", "a", "l", "l">>)

\* the fragments of the read document, as the document gives them
GivenFragments == documents.read.components.schemas

\* C24: however the first calls of _load_schemas interleave, its body runs
\* once, and every call hands back the one registry the cache holds.
C24_RegistryBuiltOnce ==
  /\ Len(registries) <= 1
  /\ \A t \in Threads : stage[t] = "RETURNED" => returned[t] = cache

\* two calls missed the empty cache: each built a registry, one is cached and
\* the other caller holds its own
C24_TwoRegistriesBuilt ==
  /\ Len(registries) = 2
  /\ cache = <<1>>
  /\ \E t \in Threads : stage[t] = "RETURNED" /\ returned[t] = <<2>>

\* C26: after loading, every method name of the read document still maps to
\* the read document's method spec.
C26_EarlierMethodSpecKept ==
  \A n \in DOMAIN registries :
    \A i \in DOMAIN documents.read.methods :
      registries[n].methods[documents.read.methods[i].name] = documents.read.methods[i]

\* starknet_call of the read document replaced by the write document's
C26_WriteDocumentReplacedCall ==
  /\ registries # <<>>
  /\ documents.write = WriteDocumentRedefining
  /\ registries[1].methods[starknet_ \o <<"c", "a", "l", "l">>].params = <<>>
  /\ documents.read.methods[1].name = starknet_ \o <<"c", "a", "l", "l">>
  /\ documents.read.methods[1].params # <<>>

\* C27: in a built registry a fragment with properties and no required list
\* has required equal to the list of its property names; a fragment that had
\* a required list keeps it; a fragment without properties gets none; and the
\* properties, the object schemas nested in them included, are as given.
C27_BackFillIsShallowAndExact ==
  \A n \in DOMAIN registries :
    \A name \in DOMAIN GivenFragments :
      /\ ("properties" \in DOMAIN GivenFragments[name]
            /\ "required" \notin DOMAIN GivenFragments[name]) =>
           /\ "required" \in DOMAIN registries[n].schemas[name]
           /\ registries[n].schemas[name].required
                = dict_keys(GivenFragments[name].properties)
      /\ "required" \in DOMAIN GivenFragments[name] =>
           registries[n].schemas[name].required = GivenFragments[name].required
      /\ ("properties" \notin DOMAIN GivenFragments[name]
            /\ "required" \notin DOMAIN GivenFragments[name]) =>
           "required" \notin DOMAIN registries[n].schemas[name]
      /\ "properties" \in DOMAIN GivenFragments[name] =>
           registries[n].schemas[name].properties = GivenFragments[name].properties

\* a fragment was back-filled and the object schema nested in it was not
C27_BackFilledWithNestedObject ==
  /\ registries # <<>>
  /\ GivenFragments.BLOCK_HEADER = Fragment(TRUE, FALSE, "none")
  /\ registries[1].schemas.BLOCK_HEADER.required = <<"block_hash", "status">>
  /\ "properties" \in DOMAIN registries[1].schemas.BLOCK_HEADER.properties[2].schema
  /\ "required" \notin DOMAIN registries[1].schemas.BLOCK_HEADER.properties[2].schema

\* C28: in a built registry the fragments with unevaluatedProperties = false
\* are those that use allOf, anyOf or oneOf, and resolving a method whose
\* result schema uses none of them sets additionalProperties = false on it.
C28_MarkedIffComposed ==
  \A n \in DOMAIN registries :
    /\ \A name \in DOMAIN GivenFragments :
         "unevaluatedProperties" \in DOMAIN registries[n].schemas[name]
           <=> ~NoComposition(GivenFragments[name])
    /\ \A name \in DOMAIN registries[n].methods :
         NoComposition(base_schema(registries[n], name)) =>
           /\ "additionalProperties" \in DOMAIN
                 _response_schema_for_method(registries[n], name)
           /\ ~_response_schema_for_method(registries[n], name).additionalProperties

\* a fragment with no composition keyword, marked
C28_PlainFragmentMarked ==
  /\ registries # <<>>
  /\ GivenFragments.BLOCK_HEADER = Fragment(TRUE, FALSE, "none")
  /\ "unevaluatedProperties" \in DOMAIN registries[1].schemas.BLOCK_HEADER
  /\ ~registries[1].schemas.BLOCK_HEADER.unevaluatedProperties
====
